---- MODULE Spec2Model ----
(***************************************************************************)
(* The mission generation pipeline of backend/app/langgraph_workflow.py:   *)
(* calculate_co2 -> classify_profile -> identify_opportunities ->          *)
(* generate_missions -> END, run over one WorkflowState as built by        *)
(* routers/missions.py, the rows routers/missions.py stores from it, the  *)
(* level and streak bookkeeping of routers/activities.py, the requests    *)
(* that write activity rows and award XP, and the loop of                  *)
(* services/shopping_agent.py.                                             *)
(*                                                                         *)
(* Encoding.  A Python dict is a function whose DOMAIN is the set of keys  *)
(* that are present.  A Python value is a tuple: <<>> is None and <<v>> is *)
(* the value v, so that a key can be absent, present with null, or present *)
(* with a value.  CO2 masses are integers: thousandths of a kg before      *)
(* rounding, hundredths of a kg after round(x, 2).                         *)
(***************************************************************************)
EXTENDS Integers, Sequences, FiniteSets, TLC

VARIABLES
    pc,                \* the node of the graph that runs next, or "END"
    raised,            \* TRUE once the node at pc has raised out of the workflow
    user_id,           \* WorkflowState.user_id
    survey_data,       \* WorkflowState.survey_data
    baseline_co2_kg,   \* WorkflowState.baseline_co2_kg, in hundredths of a kg
    profile_type,      \* WorkflowState.profile_type
    opportunity_areas, \* WorkflowState.opportunity_areas
    missions,          \* WorkflowState.missions
    error,             \* WorkflowState.error: <<>> is None, <<msg>> a string
    emissions,         \* the sub-estimates summed by calculate_co2 (thousandths)
    est_log,           \* which path each estimation sub-call took
    class_scores,      \* <<beginner_score, intermediate_score, expert_score>>
    impact_scores,     \* the four domain scores of identify_opportunities
    gen_resp,          \* what the generation service answered
    service_calls,     \* the external calls made so far, in order
    twin,              \* two pipeline runs side by side, with what the services answered
    today,             \* date.today(), as a day number
    user_profiles,     \* the user's row of table user_profiles, or NoRow
    user_missions,     \* the user's rows of table user_missions, in insertion order
    requests,          \* the requests of the user in flight or done
    user_activities,   \* the user's rows of table user_activities, in insertion order
    agent              \* one ShoppingAgent.run_streaming call: its locals and its stream

\* the WorkflowState of one run and what the model records about it
workflow_vars == <<pc, raised, user_id, survey_data, baseline_co2_kg, profile_type,
                   opportunity_areas, missions, error, emissions, est_log,
                   class_scores, impact_scores, gen_resp, service_calls>>

\* the stored rows and the requests that write them
store_vars == <<today, user_profiles, user_missions, requests>>

\* the activity rows and the shopping agent
side_vars == <<user_activities, agent>>

vars == <<workflow_vars, twin, store_vars, side_vars>>

(***************************************************************************)
(* Python values and dict access                                           *)
(***************************************************************************)
None == <<>>

Some(v) == <<v>>

\* dict.get(k): the stored value, None when the key is absent
Get(d, k) == IF k \in DOMAIN d THEN d[k] ELSE None

\* dict.get(k, default): the default only when the key is absent
GetDefault(d, k, default) == IF k \in DOMAIN d THEN d[k] ELSE Some(default)

\* truth value of an optional string / an optional integer
TruthyStr(x) == x # None /\ x[1] # ""

TruthyInt(x) == x # None /\ x[1] # 0

\* d with key k set to v
SetKey(d, k, v) == [x \in DOMAIN d \cup {k} |-> IF x = k THEN v ELSE d[x]]

(***************************************************************************)
(* `needle in text` on the option labels the model uses.  The table lists  *)
(* every pair where the needle is a proper substring of the label.         *)
(***************************************************************************)
SubstringFacts ==
    { <<"5-10 minutes", "5-10 minutes a day">>,
      <<"15-30 minutes", "15-30 minutes a day">>,
      <<"30-60 minutes", "30-60 minutes a day">>,
      <<"1+ hours", "1+ hours a day">>,
      <<"no idea", "I have no idea">>,
      <<"rough sense", "I have a rough sense">>,
      <<"calculated it", "I've calculated it before">>,
      <<"actively track", "I actively track it">>,
      <<"Tiny habits", "Tiny habits (under 5 minutes)">>,
      <<"Small weekly", "Small weekly changes">>,
      <<"Bigger lifestyle", "Bigger lifestyle shifts">>,
      <<"ready for all", "I'm ready for all of it">>,
      <<"More than", "More than 10 times">>,
      <<"meat with most meals", "I eat meat with most meals">>,
      <<"4-6 times", "4-6 times per week">>,
      <<"don't cook", "I don't cook">>,
      <<"Rarely", "Rarely or never">>,
      <<"Monthly", "Monthly or more">>,
      <<"Full control", "Full control (I own my home)">>,
      <<"Some control", "Some control (I pay the bills)">> }

Contains(needle, text) == needle = text \/ <<needle, text>> \in SubstringFacts

(***************************************************************************)
(* Estimation Engine                                                       *)
(***************************************************************************)
\* The answers of the estimation service to one POST, by what the code does
\* with them.  co2e is in thousandths of a kg and is read only for "ok".
EstFailureKinds == {"non_200", "timeout", "transport_error", "invalid_body"}

EstUnusableKinds == {"null_co2e", "non_numeric_co2e"}

Co2eValues == {123456, -3004}

EstResponses ==
    [kind : {"ok"}, co2e : Co2eValues]
    \cup [kind : {"missing_co2e"} \cup EstUnusableKinds \cup EstFailureKinds, co2e : {0}]

\* round(x, 2): thousandths to hundredths, halves to the even neighbour
Round2(m) ==
    LET q == m \div 10
        r == m % 10
    IN  IF r < 5 THEN q
        ELSE IF r > 5 THEN q + 1
        ELSE IF q % 2 = 0 THEN q ELSE q + 1

\* activity_map.get(commute_method): "" stands for None (no activity id)
ActivityId(commute_method) ==
    CASE commute_method = "I drive alone" -> "passenger_vehicle"
      [] commute_method = "I carpool with others" -> "passenger_vehicle"
      [] commute_method = "Public transportation (bus, train, subway)" -> "passenger_train"
      [] commute_method = "Mix of multiple methods" -> "passenger_vehicle"
      [] OTHER -> ""

\* emissions_per_mile.get(commute_method, 0.25), in thousandths of a kg per mile
EmissionsPerMile(commute_method) ==
    CASE commute_method = "I drive alone" -> 404
      [] commute_method = "I carpool with others" -> 202
      [] commute_method = "Public transportation (bus, train, subway)" -> 140
      [] commute_method = "I bike" -> 0
      [] commute_method = "I walk" -> 0
      [] commute_method = "I work/study from home" -> 0
      [] commute_method = "Mix of multiple methods" -> 250
      [] OTHER -> 250

\* _estimate_transport_co2: rate * distance_miles * 2 * 20
EstimateTransportCo2(commute_method, distance_miles) ==
    EmissionsPerMile(commute_method) * distance_miles * 2 * 20

\* flight_miles_map.get(flight_frequency, 0)
FlightMiles(flight_frequency) ==
    CASE flight_frequency = "Never or almost never" -> 0
      [] flight_frequency = "1-2 times" -> 2000
      [] flight_frequency = "3-5 times" -> 5000
      [] flight_frequency = "6-10 times" -> 10000
      [] flight_frequency = "More than 10 times" -> 15000
      [] OTHER -> 0

\* _estimate_flight_co2, in thousandths of a kg
EstimateFlightCo2(flight_frequency) ==
    CASE flight_frequency = "Never or almost never" -> 0
      [] flight_frequency = "1-2 times" -> 400000
      [] flight_frequency = "3-5 times" -> 1000000
      [] flight_frequency = "6-10 times" -> 2000000
      [] flight_frequency = "More than 10 times" -> 3000000
      [] OTHER -> 0

\* diet_emissions_map.get(diet_type, 150), in thousandths of a kg
DietEmissions(diet_type) ==
    CASE diet_type = "I eat meat with most meals" -> 250000
      [] diet_type = "I eat meat several times a week" -> 180000
      [] diet_type = "I eat meat occasionally (1-2x/week)" -> 120000
      [] diet_type = "Pescatarian (fish but no meat)" -> 90000
      [] diet_type = "Vegetarian" -> 60000
      [] diet_type = "Vegan" -> 40000
      [] OTHER -> 150000

\* What one sub-estimate hands back: a number (num), or a value that
\* `total_co2 += ...` cannot add (num = FALSE), and the path that produced it.
SubResult(num, v, path) == [num |-> num, v |-> v, path |-> path]

\* The try/except around one POST: 200 returns data.get("co2e", 0.0) as it
\* is, anything else returns the fallback table value.
ServiceOrFallback(r, fallback) ==
    IF r.kind = "ok" THEN SubResult(TRUE, r.co2e, "service")
    ELSE IF r.kind = "missing_co2e" THEN SubResult(TRUE, 0, "service")
    ELSE IF r.kind \in EstUnusableKinds THEN SubResult(FALSE, 0, "unusable")
    ELSE SubResult(TRUE, fallback, "fallback")

\* _calculate_transportation_emissions
CalculateTransportationEmissions(commute_method, distance_miles, r) ==
    IF ActivityId(commute_method) = ""
    THEN SubResult(TRUE, 0, "no_call")
    ELSE ServiceOrFallback(r, EstimateTransportCo2(commute_method, distance_miles))

\* _calculate_flight_emissions
CalculateFlightEmissions(flight_frequency, r) ==
    IF FlightMiles(flight_frequency) = 0
    THEN SubResult(TRUE, 0, "no_call")
    ELSE ServiceOrFallback(r, EstimateFlightCo2(flight_frequency))

\* _calculate_food_emissions: a table lookup, no POST
CalculateFoodEmissions(diet_type) == DietEmissions(diet_type)

Parts(c, f, d) == [commute |-> c, flight |-> f, food |-> d]

\* _estimate_co2_footprint.  rate * None raises TypeError: a commute_method
\* that is set with a commute_distance that is present and null.
EstimateCo2Footprint(survey) ==
    LET method   == Get(survey, "commute_method")
        distance == GetDefault(survey, "commute_distance", 0)
        flight   == Get(survey, "flight_frequency")
        diet     == Get(survey, "diet_type")
        c == IF TruthyStr(method) /\ distance # None
             THEN EstimateTransportCo2(method[1], distance[1]) ELSE 0
        f == IF TruthyStr(flight) THEN EstimateFlightCo2(flight[1]) ELSE 0
        d == IF TruthyStr(diet) THEN DietEmissions(diet[1]) ELSE 0
    IN  [raises   |-> TruthyStr(method) /\ distance = None,
         baseline |-> Round2(c + f + d),
         parts    |-> Parts(c, f, d)]

\* The POSTs a sub-estimate made
CallsOf(name, res) == IF res.path = "no_call" \/ res.path = "skipped" THEN <<>> ELSE <<name>>

\* calculate_co2_footprint on the survey, for one behaviour of the client
\* (client_ok: httpx.AsyncClient() could be opened) and of the service (r1
\* answers the commute POST, r2 the flight POST, when they are made).
CalculateCo2Footprint(survey, client_ok, r1, r2) ==
    LET method   == Get(survey, "commute_method")
        distance == Get(survey, "commute_distance")
        flight   == Get(survey, "flight_frequency")
        diet     == Get(survey, "diet_type")
        skipped  == SubResult(TRUE, 0, "skipped")
        c == IF TruthyStr(method) /\ TruthyInt(distance)
             THEN CalculateTransportationEmissions(method[1], distance[1], r1)
             ELSE skipped
        f == IF ~c.num THEN SubResult(TRUE, 0, "not_reached")
             ELSE IF TruthyStr(flight) THEN CalculateFlightEmissions(flight[1], r2)
             ELSE skipped
        d == IF TruthyStr(diet) THEN CalculateFoodEmissions(diet[1]) ELSE 0
        whole == ~client_ok \/ ~c.num \/ ~f.num
        fb == EstimateCo2Footprint(survey)
        calls == IF client_ok THEN CallsOf("estimate:commute", c) \o CallsOf("estimate:flight", f)
                 ELSE <<>>
        \* how many times _estimate_transport_co2 and _estimate_flight_co2 ran:
        \* inside the sub-estimate whose POST failed, and inside
        \* _estimate_co2_footprint (the second is not reached when the first raises)
        table_c == (IF client_ok /\ c.path = "fallback" THEN 1 ELSE 0)
                   + (IF whole /\ TruthyStr(method) THEN 1 ELSE 0)
        table_f == (IF client_ok /\ f.path = "fallback" THEN 1 ELSE 0)
                   + (IF whole /\ ~fb.raises /\ TruthyStr(flight) THEN 1 ELSE 0)
        log == [client |-> IF client_ok THEN "opened" ELSE "open_failed",
                commute |-> IF client_ok THEN c.path ELSE "not_reached",
                flight |-> IF client_ok THEN f.path ELSE "not_reached",
                whole_fallback |-> whole,
                transport_table_runs |-> table_c,
                flight_table_runs |-> table_f]
    IN  IF whole
        THEN [raises |-> fb.raises, baseline |-> fb.baseline, parts |-> fb.parts,
              calls |-> calls, log |-> log]
        ELSE [raises |-> FALSE, baseline |-> Round2(c.v + f.v + d),
              parts |-> Parts(c.v, f.v, d), calls |-> calls, log |-> log]

(***************************************************************************)
(* Profile Classifier                                                      *)
(***************************************************************************)
Score(b, i, e) == <<b, i, e>>

AddScores(x, y) == <<x[1] + y[1], x[2] + y[2], x[3] + y[3]>>

\* Time commitment scoring
TimeScore(time_commitment) ==
    IF Contains("5-10 minutes", time_commitment) THEN Score(3, 0, 0)
    ELSE IF Contains("15-30 minutes", time_commitment)
            \/ Contains("30-60 minutes", time_commitment) THEN Score(0, 3, 0)
    ELSE IF Contains("1+ hours", time_commitment) THEN Score(0, 0, 3)
    ELSE Score(0, 0, 0)

\* Awareness scoring
AwarenessScore(carbon_awareness) ==
    IF Contains("no idea", carbon_awareness) THEN Score(2, 0, 0)
    ELSE IF Contains("rough sense", carbon_awareness) THEN Score(0, 2, 0)
    ELSE IF Contains("calculated it", carbon_awareness)
            \/ Contains("actively track", carbon_awareness) THEN Score(0, 0, 2)
    ELSE Score(0, 0, 0)

\* len(current_habits) if isinstance(current_habits, list) else 0
HabitCount(current_habits) ==
    IF current_habits # None THEN Len(current_habits[1]) ELSE 0

\* Current habits: the else branch is reached for every count above 3
HabitsScore(current_habits) ==
    LET habit_count == HabitCount(current_habits)
    IN  IF habit_count = 0
           \/ (habit_count = 1 /\ Contains("None of these yet", current_habits[1][1]))
        THEN Score(2, 0, 0)
        ELSE IF habit_count <= 3 THEN Score(0, 2, 0)
        ELSE Score(0, 0, 2)

\* Achievable changes
AchievableScore(achievable_changes) ==
    IF Contains("Tiny habits", achievable_changes) THEN Score(1, 0, 0)
    ELSE IF Contains("Small weekly", achievable_changes)
            \/ Contains("Monthly commitments", achievable_changes) THEN Score(0, 1, 0)
    ELSE IF Contains("Bigger lifestyle", achievable_changes)
            \/ Contains("ready for all", achievable_changes) THEN Score(0, 0, 1)
    ELSE Score(0, 0, 0)

Max3(a, b, c) == IF a >= b /\ a >= c THEN a ELSE IF b >= c THEN b ELSE c

\* mutant: the comparisons in the opposite order, BEGINNER first
FinalClassification_BeginnerFirst(scores) ==
    LET max_score == Max3(scores[1], scores[2], scores[3])
    IN  IF max_score = scores[1] THEN "BEGINNER"
        ELSE IF max_score = scores[2] THEN "INTERMEDIATE"
        ELSE "EXPERT"

\* Determine final classification
FinalClassification(scores) ==
    LET max_score == Max3(scores[1], scores[2], scores[3])
    IN  IF max_score = scores[3] THEN "EXPERT"
        ELSE IF max_score = scores[2] THEN "INTERMEDIATE"
        ELSE "BEGINNER"

\* mutant: the classifier also reads diet_type and counts a vegan diet for EXPERT
ClassifyUserProfile_AlsoDiet(survey) ==
    LET time_commitment    == GetDefault(survey, "time_commitment", "")
        carbon_awareness   == GetDefault(survey, "carbon_awareness", "")
        achievable_changes == GetDefault(survey, "achievable_changes", "")
        current_habits     == GetDefault(survey, "current_habits", <<>>)
        raises == time_commitment = None \/ carbon_awareness = None
                  \/ achievable_changes = None
        diet   == IF Get(survey, "diet_type") = Some("Vegan")
                  THEN Score(0, 0, 3) ELSE Score(0, 0, 0)
        scores == IF raises THEN Score(0, 0, 0)
                  ELSE AddScores(AddScores(AddScores(TimeScore(time_commitment[1]),
                                                     AwarenessScore(carbon_awareness[1])),
                                           AddScores(HabitsScore(current_habits),
                                                     AchievableScore(achievable_changes[1]))),
                                 diet)
    IN  [raises |-> raises, scores |-> scores, profile |-> FinalClassification(scores)]

\* classify_user_profile.  `needle in None` raises TypeError: one of the three
\* string fields present and null.
ClassifyUserProfile(survey) ==
    LET time_commitment    == GetDefault(survey, "time_commitment", "")
        carbon_awareness   == GetDefault(survey, "carbon_awareness", "")
        achievable_changes == GetDefault(survey, "achievable_changes", "")
        current_habits     == GetDefault(survey, "current_habits", <<>>)
        raises == time_commitment = None \/ carbon_awareness = None
                  \/ achievable_changes = None
        scores == IF raises THEN Score(0, 0, 0)
                  ELSE AddScores(AddScores(TimeScore(time_commitment[1]),
                                           AwarenessScore(carbon_awareness[1])),
                                 AddScores(HabitsScore(current_habits),
                                           AchievableScore(achievable_changes[1])))
    IN  [raises |-> raises, scores |-> scores, profile |-> FinalClassification(scores)]

(***************************************************************************)
(* Opportunity Ranker                                                      *)
(***************************************************************************)
\* the insertion order of impact_scores
AreaOrder == <<"transportation", "food", "shopping", "energy">>

Areas == {AreaOrder[i] : i \in DOMAIN AreaOrder}

AreaIndex(a) == CHOOSE i \in DOMAIN AreaOrder : AreaOrder[i] = a

B2N(b, n) == IF b THEN n ELSE 0

\* survey.get(k, ""), the text searched by `needle in ...`
Text(survey, k) == GetDefault(survey, k, "")[1]

\* The points of each `if` of the scoring, by the survey key it reads
CommuteMethodPoints(survey) ==
    B2N(Get(survey, "commute_method")
            \in {Some("I drive alone"), Some("Mix of multiple methods")}, 3)

\* mutant: a default distance that scores
CommuteDistancePoints_LongDefault(survey) ==
    B2N(GetDefault(survey, "commute_distance", 11)[1] > 10, 2)

CommuteDistancePoints(survey) ==
    B2N(GetDefault(survey, "commute_distance", 0)[1] > 10, 2)

FlightPoints(survey) == B2N(Contains("More than", Text(survey, "flight_frequency")), 2)

DietPoints(survey) == B2N(Contains("meat with most meals", Text(survey, "diet_type")), 3)

EatingOutPoints(survey) ==
    B2N(Contains("Daily", Text(survey, "eating_out_frequency"))
        \/ Contains("4-6 times", Text(survey, "eating_out_frequency")), 2)

CookingPoints(survey) ==
    B2N(Contains("don't cook", Text(survey, "cooking_habits"))
        \/ Contains("Rarely", Text(survey, "cooking_habits")), 1)

ClothingPoints(survey) == B2N(Contains("Monthly", Text(survey, "clothing_frequency")), 2)

PurchasePoints(survey) ==
    B2N(Get(survey, "purchase_behavior") = Some("Buy it new immediately"), 2)

LocationPoints(survey) == B2N(Contains("Mostly online", Text(survey, "shopping_location")), 1)

EnergyControlPoints(survey) ==
    B2N(Contains("Full control", Text(survey, "energy_control"))
        \/ Contains("Some control", Text(survey, "energy_control")), 3)

HousingPoints(survey) == B2N(Contains("House", Text(survey, "housing_type")), 2)

\* Transportation impact
TransportScore(survey) ==
    CommuteMethodPoints(survey) + CommuteDistancePoints(survey) + FlightPoints(survey)

\* Food impact
FoodScore(survey) == DietPoints(survey) + EatingOutPoints(survey) + CookingPoints(survey)

\* Shopping impact
ShoppingScore(survey) ==
    ClothingPoints(survey) + PurchasePoints(survey) + LocationPoints(survey)

\* Energy impact
EnergyScore(survey) == EnergyControlPoints(survey) + HousingPoints(survey)

ImpactScores(survey) ==
    [transportation |-> TransportScore(survey), food |-> FoodScore(survey),
     shopping |-> ShoppingScore(survey), energy |-> EnergyScore(survey)]

\* mutant: an ascending sort read backwards, which reverses equal scores
SortedAreas_TiesReversed(scores) ==
    LET Before(a, b) == scores[a] > scores[b]
                        \/ (scores[a] = scores[b] /\ AreaIndex(a) > AreaIndex(b))
        Rank(a) == 1 + Cardinality({b \in Areas : Before(b, a)})
    IN  [i \in 1..Cardinality(Areas) |-> CHOOSE a \in Areas : Rank(a) = i]

\* sorted(impact_scores.items(), key=score, reverse=True): a stable sort, so
\* equal scores keep the insertion order
SortedAreas(scores) ==
    LET Before(a, b) == scores[a] > scores[b]
                        \/ (scores[a] = scores[b] /\ AreaIndex(a) < AreaIndex(b))
        Rank(a) == 1 + Cardinality({b \in Areas : Before(b, a)})
    IN  [i \in 1..Cardinality(Areas) |-> CHOOSE a \in Areas : Rank(a) = i]

\* [area for area, score in sorted_areas[:3] if score > 0]
TopAreas(scores) ==
    LET Positive(a) == scores[a] > 0
    IN  SelectSeq(SubSeq(SortedAreas(scores), 1, 3), Positive)

\* mutant: the first three domains in insertion order
DefaultOpportunities_FirstThree == <<"transportation", "food", "shopping">>

\* Ensure at least one opportunity
DefaultOpportunities == <<"transportation", "food", "energy">>

\* The keys whose value is compared with `>` or searched with `in`: a key
\* present and null raises TypeError there.
RankerStrictKeys ==
    {"commute_distance", "flight_frequency", "diet_type", "eating_out_frequency",
     "cooking_habits", "clothing_frequency", "shopping_location", "energy_control",
     "housing_type"}

\* mutant: without the `if not state["opportunity_areas"]` default
OpportunitiesOf_NoDefault(survey, raises) ==
    LET scores == IF raises THEN [a \in Areas |-> 0] ELSE ImpactScores(survey)
    IN  [raises |-> raises, scores |-> scores, areas |-> TopAreas(scores)]

\* The body of identify_opportunities, given whether a lookup raised
OpportunitiesOf(survey, raises) ==
    LET scores == IF raises THEN [a \in Areas |-> 0] ELSE ImpactScores(survey)
        top    == TopAreas(scores)
    IN  [raises |-> raises, scores |-> scores,
         areas |-> IF top = <<>> THEN DefaultOpportunities ELSE top]

\* mutant: survey[k] in place of survey.get(k, default), KeyError on an absent key
IdentifyOpportunities_KeyError(survey) ==
    OpportunitiesOf(survey, \E k \in RankerStrictKeys : Get(survey, k) = None)

\* identify_opportunities
IdentifyOpportunities(survey) ==
    OpportunitiesOf(survey,
                    \E k \in RankerStrictKeys : k \in DOMAIN survey /\ survey[k] = None)

(***************************************************************************)
(* Mission Generator                                                       *)
(***************************************************************************)
MinMissions == 8

PromptMaxMissions == 12

\* the longest list the generation service answers with in the model
MaxMissions == 13

valid_mission_types == {"one_time", "repeatable", "streak"}

valid_categories == {"transportation", "food", "energy", "shopping"}

\* mission.get(k) as an optional value
MissionGet(mission, k) == IF k \in DOMAIN mission THEN Some(mission[k]) ELSE None

\* _generate_fallback_missions (co2_saved_kg and money_saved in hundredths)
FallbackMissions ==
    << [title |-> "Use a reusable water bottle today",
        description |-> "Skip the disposable plastic bottles and bring your own reusable water bottle. This simple switch saves plastic waste and money.",
        category |-> "shopping", co2_saved_kg |-> 50, money_saved |-> 200,
        xp_reward |-> 10,
        tips |-> <<"Keep your bottle in your bag",
                   "Add flavor with lemon or cucumber",
                   "Clean it daily for freshness">>,
        mission_type |-> "one_time"],
       [title |-> "Unplug devices before bed tonight",
        description |-> "Before you go to sleep, unplug phone chargers, laptop chargers, and other devices that draw phantom power when not in use.",
        category |-> "energy", co2_saved_kg |-> 120, money_saved |-> 150,
        xp_reward |-> 15,
        tips |-> <<"Use a power strip for easy unplugging",
                   "Make it part of your bedtime routine",
                   "Focus on bedroom and office first">>,
        mission_type |-> "repeatable"],
       [title |-> "Try one meatless meal this week",
        description |-> "Choose one day this week and opt for a vegetarian or plant-based meal. Explore new flavors while reducing your carbon footprint.",
        category |-> "food", co2_saved_kg |-> 230, money_saved |-> 500,
        xp_reward |-> 20,
        tips |-> <<"Try a veggie burger or falafel",
                   "Make it Meatless Monday",
                   "Ask friends for restaurant recommendations">>,
        mission_type |-> "one_time"] >>

\* mutant: only mission_type is repaired
SanitizeMission_TypeOnly(mission, areas) ==
    [raises  |-> FALSE,
     mission |-> IF MissionGet(mission, "mission_type")
                        \notin {Some(t) : t \in valid_mission_types}
                 THEN SetKey(mission, "mission_type", "one_time") ELSE mission]

\* mutant: an invalid category is always replaced by "energy"
SanitizeMission_Energy(mission, areas) ==
    LET m1 == IF MissionGet(mission, "mission_type")
                    \notin {Some(t) : t \in valid_mission_types}
              THEN SetKey(mission, "mission_type", "one_time") ELSE mission
        bad_category == MissionGet(mission, "category")
                            \notin {Some(c) : c \in valid_categories}
    IN  [raises  |-> FALSE,
         mission |-> IF bad_category THEN SetKey(m1, "category", "energy") ELSE m1]

\* The per-mission body of the sanitising loop.  The message printed for an
\* invalid category indexes opportunity_areas[0] before the assignment, so
\* an empty list raises IndexError there.
SanitizeMission(mission, areas) ==
    LET m1 == IF MissionGet(mission, "mission_type")
                    \notin {Some(t) : t \in valid_mission_types}
              THEN SetKey(mission, "mission_type", "one_time") ELSE mission
        bad_category == MissionGet(mission, "category")
                            \notin {Some(c) : c \in valid_categories}
    IN  [raises  |-> bad_category /\ areas = <<>>,
         mission |-> IF bad_category /\ areas # <<>>
                     THEN SetKey(m1, "category", areas[1]) ELSE m1]

\* What json.loads is given after the fence is stripped, by its outcome.  An
\* unclosed fence makes find return -1 and the slice drop the last character
\* of the text: the closing bracket, unless the text ends in a newline.
ParsedKind(resp) ==
    IF resp.kind = "raise" THEN "raise"
    ELSE IF resp.fence = "unclosed" THEN "not_json"
    ELSE resp.kind

\* The try/except of generate_missions for a least accepted list length
GenerateWith(areas, resp, min_len) ==
    LET kind == ParsedKind(resp)
        n == Len(resp.missions)
        Fallback(msg) == [missions |-> FallbackMissions, error |-> Some(msg)]
        sane == [i \in 1..n |-> SanitizeMission(resp.missions[i], areas)]
    IN  IF kind = "raise" THEN Fallback(resp.message)
        ELSE IF kind = "not_json" THEN Fallback("Expecting value: line 1 column 1 (char 0)")
        ELSE IF kind = "json_object" \/ n < min_len
            THEN Fallback("Invalid missions format or too few missions")
        ELSE IF kind = "json_list_of_strings"
            THEN Fallback("'str' object has no attribute 'get'")
        ELSE IF \E i \in 1..n : sane[i].raises
            THEN Fallback("list index out of range")
        ELSE [missions |-> [i \in 1..n |-> sane[i].mission], error |-> None]

\* mutant: only isinstance(missions, list) is checked, not the length
GenerateMissionsResult_AnyLength(areas, resp) == GenerateWith(areas, resp, 0)

\* The body of generate_missions after the prompt is built: the missions and
\* the error it stores for one answer of the generation service.
GenerateMissionsResult(areas, resp) == GenerateWith(areas, resp, MinMissions)

(***************************************************************************)
(* The answers of the generation service the model draws from              *)
(***************************************************************************)
Missing == "<missing>"

\* The i-th generated mission with category c and mission_type t as the
\* service wrote them; Missing leaves the key out of the object.
RawMission(i, c, t) ==
    LET full == [title |-> <<"Generated mission", i>>,
                 description |-> <<"What to do for mission", i>>,
                 category |-> c,
                 co2_saved_kg |-> 50 * i,
                 money_saved |-> 25 * i,
                 xp_reward |-> 10 * ((i % 10) + 1),
                 tips |-> <<"Start small", "Keep going", "Tell a friend">>,
                 mission_type |-> t]
        keys == {k \in DOMAIN full : ~(k \in {"category", "mission_type"} /\ full[k] = Missing)}
    IN  [k \in keys |-> full[k]]

CategoryCycle == <<"transportation", "food", "energy", "shopping">>

TypeCycle == <<"one_time", "repeatable", "streak">>

\* <<category, mission_type>> pairs for the first and the last mission of a
\* list: an unknown value, a value of the other enumeration, a missing key,
\* a valid value.
OddPairs ==
    { << <<"travel", "monthly">>, <<"food", "streak">> >>,
      << <<"one_time", "food">>, <<"travel", "repeatable">> >>,
      << <<Missing, Missing>>, <<"energy", "monthly">> >>,
      << <<"shopping", "one_time">>, <<"transportation", "repeatable">> >> }

MissionList(n, first, last) ==
    [i \in 1..n |->
        IF i = 1 THEN RawMission(i, first[1], first[2])
        ELSE IF i = n THEN RawMission(i, last[1], last[2])
        ELSE RawMission(i, CategoryCycle[(i % 4) + 1], TypeCycle[(i % 3) + 1])]

ListLengths == {0, MinMissions - 1, MinMissions, PromptMaxMissions, MaxMissions}

GenResponse(kind, fence, message, list) ==
    [kind |-> kind, fence |-> fence, message |-> message, missions |-> list]

StringList(n) == [i \in 1..n |-> <<"mission text", i>>]

\* A list of valid categories and types in which the second mission holds
\* values the prompt does not ask for: an xp_reward of 500, a negative
\* co2_saved_kg, a single tip; and the third one five tips.
OddValueList ==
    LET list == MissionList(MinMissions, <<"shopping", "one_time">>,
                            <<"transportation", "repeatable">>)
    IN  [list EXCEPT ![2] = [@ EXCEPT !.xp_reward = 500, !.co2_saved_kg = -100,
                                      !.tips = <<"Just do it">>],
                     ![3] = [@ EXCEPT !.tips = <<"One", "Two", "Three", "Four", "Five">>]]

GenResponses ==
    { GenResponse("raise", "none", msg, <<>>) : msg \in {"", "504 Deadline Exceeded"} }
    \cup { GenResponse("json_list", "none", "", OddValueList) }
    \cup { GenResponse("not_json", "none", "", <<>>) }
    \cup { GenResponse("json_object", "none", "", MissionList(MinMissions, p[1], p[2]))
             : p \in {q \in OddPairs : q[1][1] = "shopping"} }
    \cup { GenResponse("json_list_of_strings", "none", "", StringList(MinMissions)) }
    \cup { GenResponse("json_list", "none", "", MissionList(n, p[1], p[2]))
             : n \in {k \in ListLengths : k < MinMissions},
               p \in {q \in OddPairs : q[1][1] = "shopping"} }
    \cup { GenResponse("json_list", "none", "", MissionList(n, p[1], p[2]))
             : n \in {k \in ListLengths : k >= MinMissions}, p \in OddPairs }
    \cup { GenResponse("json_list", f, "", MissionList(MinMissions, p[1], p[2]))
             : f \in {"json", "bare", "unclosed", "unclosed_newline"},
               p \in {q \in OddPairs : q[1][1] = "travel"} }

(***************************************************************************)
(* The surveys the model runs the pipeline on                              *)
(***************************************************************************)
\* The fields of SurveyRequest
SurveyKeys ==
    {"commute_method", "commute_distance", "flight_frequency", "diet_type",
     "eating_out_frequency", "cooking_habits", "shopping_habits",
     "clothing_frequency", "shopping_location", "purchase_behavior",
     "housing_type", "energy_control", "current_habits", "carbon_awareness",
     "time_commitment", "motivation", "achievable_changes"}

\* marks a key that is left out of the dict
Absent == <<"absent", "absent">>

MkSurvey(full) == [k \in {x \in DOMAIN full : full[x] # Absent} |-> full[k]]

Blank == [k \in SurveyKeys |-> Absent]

\* the longest current_habits list of the model
MaxHabits == 4

HabitNames == <<"I recycle regularly", "I use reusable bags", "I compost",
                "I bike or walk", "I line-dry laundry", "I buy second-hand">>

HabitLists ==
    { <<>>, <<"None of these yet">>, <<"I recycle regularly">>,
      SubSeq(HabitNames, 1, MaxHabits - 1), SubSeq(HabitNames, 1, MaxHabits) }

\* a key absent, null or answered / absent or answered
OptionalOf(values) == {Absent, None} \cup {Some(v) : v \in values}

AnsweredOrAbsent(values) == {Absent} \cup {Some(v) : v \in values}

\* every combination of the four fields the Estimation Engine reads
EstimationSurveys ==
    { MkSurvey([Blank EXCEPT !["commute_method"] = m, !["commute_distance"] = d,
                             !["flight_frequency"] = f, !["diet_type"] = t]) :
        m \in OptionalOf({"I drive alone", "I bike", "Electric scooter"}),
        d \in OptionalOf({-5, 0, 15}),
        f \in OptionalOf({"Never or almost never", "More than 10 times"}),
        t \in OptionalOf({"I eat meat with most meals", "Flexitarian"}) }

\* every combination of the four fields the Profile Classifier reads
ClassifierSurveys ==
    { MkSurvey([Blank EXCEPT !["time_commitment"] = t, !["carbon_awareness"] = a,
                             !["current_habits"] = h, !["achievable_changes"] = c]) :
        t \in AnsweredOrAbsent({"5-10 minutes a day", "15-30 minutes a day", "1+ hours a day"}),
        a \in AnsweredOrAbsent({"I have no idea", "I have a rough sense", "I actively track it"}),
        h \in AnsweredOrAbsent(HabitLists),
        c \in AnsweredOrAbsent({"Tiny habits (under 5 minutes)", "Monthly commitments",
                          "I'm ready for all of it"}) }

\* every combination of the fields only the Opportunity Ranker reads
RankerSurveys ==
    { MkSurvey([Blank EXCEPT !["eating_out_frequency"] = e, !["cooking_habits"] = c,
                             !["clothing_frequency"] = l, !["purchase_behavior"] = p,
                             !["shopping_location"] = s, !["energy_control"] = g,
                             !["housing_type"] = h]) :
        e \in AnsweredOrAbsent({"4-6 times per week"}),
        c \in AnsweredOrAbsent({"I don't cook"}),
        l \in AnsweredOrAbsent({"Monthly or more"}),
        p \in AnsweredOrAbsent({"Buy it new immediately"}),
        s \in AnsweredOrAbsent({"Mostly online"}),
        g \in AnsweredOrAbsent({"Some control (I pay the bills)"}),
        h \in AnsweredOrAbsent({"House"}) }

\* a survey with every field answered
FullSurvey ==
    [commute_method |-> Some("I drive alone"), commute_distance |-> Some(15),
     flight_frequency |-> Some("Never or almost never"),
     diet_type |-> Some("I eat meat with most meals"),
     eating_out_frequency |-> Some("Daily"), cooking_habits |-> Some("Rarely or never"),
     shopping_habits |-> Some(<<"Price", "Convenience">>),
     clothing_frequency |-> Some("A few times a year"),
     shopping_location |-> Some("Mostly in-store"),
     purchase_behavior |-> Some("Try to repair it first"),
     housing_type |-> Some("Apartment"),
     energy_control |-> Some("Full control (I own my home)"),
     current_habits |-> Some(<<"I recycle regularly", "I compost">>),
     carbon_awareness |-> Some("I've calculated it before"),
     time_commitment |-> Some("30-60 minutes a day"),
     motivation |-> Some("Saving money"),
     achievable_changes |-> Some("Small weekly changes")]

\* the answered survey with up to two of its keys absent, or one key null
PartialSurveys ==
    { MkSurvey([k \in SurveyKeys |-> IF k \in gone THEN Absent ELSE FullSurvey[k]]) :
        gone \in {g \in SUBSET SurveyKeys : Cardinality(g) <= 2} }
    \cup { [FullSurvey EXCEPT ![k] = None] : k \in SurveyKeys }

\* surveys in which all four domains score, with and without equal scores
AllDomainSurveys ==
    { MkSurvey([Blank EXCEPT !["commute_method"] = Some("I drive alone"),
                             !["eating_out_frequency"] = Some("Daily"),
                             !["clothing_frequency"] = Some("Monthly or more"),
                             !["purchase_behavior"] = p,
                             !["housing_type"] = Some("House"),
                             !["energy_control"] = g]) :
        p \in AnsweredOrAbsent({"Buy it new immediately"}),
        g \in AnsweredOrAbsent({"Full control (I own my home)"}) }

Surveys ==
    EstimationSurveys \cup ClassifierSurveys \cup RankerSurveys \cup PartialSurveys
    \cup AllDomainSurveys

(***************************************************************************)
(* The workflow                                                            *)
(***************************************************************************)
NoResponse == GenResponse("none", "none", "", <<>>)

NotStarted ==
    [client |-> "not_opened", commute |-> "not_reached", flight |-> "not_reached",
     whole_fallback |-> FALSE, transport_table_runs |-> 0, flight_table_runs |-> 0]

\* no second run is being compared
NoTwin == <<>>

\* no row of the table for this user
NoRow == <<>>

\* no run_streaming call
NoAgent == <<>>

\* no activity row and no agent
SideIdle ==
    /\ user_activities = <<>>
    /\ agent = NoAgent

\* the tables before any request of the user
StoreIdle ==
    /\ today = 0
    /\ user_profiles = NoRow
    /\ user_missions = <<>>
    /\ requests = <<>>

\* initial_state of routers/missions.py, for any stored survey
Init ==
    /\ pc = "calculate_co2"
    /\ raised = FALSE
    /\ user_id = "user-1"
    /\ survey_data \in Surveys
    /\ baseline_co2_kg = 0
    /\ profile_type = "BEGINNER"
    /\ opportunity_areas = <<>>
    /\ missions = <<>>
    /\ error = None
    /\ emissions = Parts(0, 0, 0)
    /\ est_log = NotStarted
    /\ class_scores = Score(0, 0, 0)
    /\ impact_scores = [a \in Areas |-> 0]
    /\ gen_resp = NoResponse
    /\ service_calls = <<>>
    /\ twin = NoTwin
    /\ StoreIdle
    /\ SideIdle

\* The surveys for which calculate_co2 can reach the commute POST and the
\* flight POST; the service answers only the POSTs that are made.
PostsCommute(survey) ==
    LET method   == Get(survey, "commute_method")
        distance == Get(survey, "commute_distance")
    IN  TruthyStr(method) /\ TruthyInt(distance) /\ ActivityId(method[1]) # ""

PostsFlight(survey) ==
    LET flight == Get(survey, "flight_frequency")
    IN  TruthyStr(flight) /\ FlightMiles(flight[1]) # 0

NoAnswer == [kind |-> "no_post", co2e |-> 0]

AnswersTo(posted) == IF posted THEN EstResponses ELSE {NoAnswer}

\* node calculate_co2
CalculateCo2 ==
    /\ pc = "calculate_co2" /\ ~raised
    /\ \E client_ok \in BOOLEAN :
       \E r1 \in AnswersTo(client_ok /\ PostsCommute(survey_data)),
          r2 \in AnswersTo(client_ok /\ PostsFlight(survey_data)) :
         LET res == CalculateCo2Footprint(survey_data, client_ok, r1, r2)
         IN  /\ est_log' = res.log
             /\ service_calls' = service_calls \o res.calls
             /\ IF res.raises
                THEN /\ raised' = TRUE
                     /\ UNCHANGED <<pc, baseline_co2_kg, emissions>>
                ELSE /\ baseline_co2_kg' = res.baseline
                     /\ emissions' = res.parts
                     /\ pc' = "classify_profile"
                     /\ UNCHANGED raised
    /\ UNCHANGED <<user_id, survey_data, profile_type, opportunity_areas, missions,
                   error, class_scores, impact_scores, gen_resp>>
    /\ UNCHANGED <<twin, store_vars, side_vars>>

\* classify_profile, were it to start the baseline again from 0.0
ClassifyProfile_ResetsBaseline ==
    /\ pc = "classify_profile" /\ ~raised
    /\ LET res == ClassifyUserProfile(survey_data)
       IN  IF res.raises
           THEN /\ raised' = TRUE
                /\ UNCHANGED <<pc, profile_type, class_scores, baseline_co2_kg>>
           ELSE /\ profile_type' = res.profile
                /\ class_scores' = res.scores
                /\ baseline_co2_kg' = 0
                /\ pc' = "identify_opportunities"
                /\ UNCHANGED raised
    /\ UNCHANGED <<user_id, survey_data, opportunity_areas, missions,
                   error, emissions, est_log, impact_scores, gen_resp, service_calls>>
    /\ UNCHANGED <<twin, store_vars, side_vars>>

\* node classify_profile
ClassifyProfile ==
    /\ pc = "classify_profile" /\ ~raised
    /\ LET res == ClassifyUserProfile(survey_data)
       IN  IF res.raises
           THEN /\ raised' = TRUE
                /\ UNCHANGED <<pc, profile_type, class_scores>>
           ELSE /\ profile_type' = res.profile
                /\ class_scores' = res.scores
                /\ pc' = "identify_opportunities"
                /\ UNCHANGED raised
    /\ UNCHANGED <<user_id, survey_data, baseline_co2_kg, opportunity_areas, missions,
                   error, emissions, est_log, impact_scores, gen_resp, service_calls>>
    /\ UNCHANGED <<twin, store_vars, side_vars>>

\* node identify_opportunities
IdentifyOpportunitiesNode ==
    /\ pc = "identify_opportunities" /\ ~raised
    /\ LET res == IdentifyOpportunities(survey_data)
       IN  IF res.raises
           THEN /\ raised' = TRUE
                /\ UNCHANGED <<pc, opportunity_areas, impact_scores>>
           ELSE /\ opportunity_areas' = res.areas
                /\ impact_scores' = res.scores
                /\ pc' = "generate_missions"
                /\ UNCHANGED raised
    /\ UNCHANGED <<user_id, survey_data, baseline_co2_kg, profile_type, missions,
                   error, emissions, est_log, class_scores, gen_resp, service_calls>>
    /\ UNCHANGED <<twin, store_vars, side_vars>>

\* node generate_missions: one ainvoke, then parse, validate, sanitise
GenerateMissions ==
    /\ pc = "generate_missions" /\ ~raised
    /\ \E resp \in GenResponses :
         LET res == GenerateMissionsResult(opportunity_areas, resp)
         IN  /\ gen_resp' = resp
             /\ service_calls' = Append(service_calls, "generate")
             /\ missions' = res.missions
             /\ error' = res.error
    /\ pc' = "END"
    /\ UNCHANGED <<raised, user_id, survey_data, baseline_co2_kg, profile_type,
                   opportunity_areas, emissions, est_log, class_scores, impact_scores>>
    /\ UNCHANGED <<twin, store_vars, side_vars>>

Next == CalculateCo2 \/ ClassifyProfile \/ IdentifyOpportunitiesNode \/ GenerateMissions

Spec == Init /\ [][Next]_vars

\* no pipeline run is in progress
WorkflowIdle ==
    /\ pc = "idle"
    /\ raised = FALSE
    /\ user_id = "user-1"
    /\ survey_data = MkSurvey(Blank)
    /\ baseline_co2_kg = 0
    /\ profile_type = "BEGINNER"
    /\ opportunity_areas = <<>>
    /\ missions = <<>>
    /\ error = None
    /\ emissions = Parts(0, 0, 0)
    /\ est_log = NotStarted
    /\ class_scores = Score(0, 0, 0)
    /\ impact_scores = [a \in Areas |-> 0]
    /\ gen_resp = NoResponse
    /\ service_calls = <<>>

(***************************************************************************)
(* Two runs of the workflow, each on its own initial_state, with what the  *)
(* services answered each of them kept next to its result                  *)
(***************************************************************************)
\* the four fields classify_user_profile reads
ClassifierKeys == {"time_commitment", "carbon_awareness", "current_habits",
                   "achievable_changes"}

\* Surveys that agree or differ on those four fields and on the others
TwinSurveys ==
    LET light == MkSurvey([Blank EXCEPT !["carbon_awareness"] = Some("I have a rough sense")])
    IN  { MkSurvey(Blank),
          light,
          SetKey(SetKey(SetKey(SetKey(light, "diet_type", Some("Vegan")),
                               "commute_method", Some("I drive alone")),
                        "commute_distance", Some(15)),
                 "flight_frequency", Some("More than 10 times")),
          FullSurvey,
          [FullSurvey EXCEPT !["time_commitment"] = Some("5-10 minutes a day")],
          [FullSurvey EXCEPT !["diet_type"] = Some("Vegan"),
                             !["housing_type"] = None] }

\* the answers of the two services the two runs are given
TwinEstResponses ==
    { r \in EstResponses : r.kind \in {"non_200", "null_co2e"}
                           \/ (r.kind = "ok" /\ r.co2e > 0) }

TwinGenResponses ==
    { g \in GenResponses : g.kind = "raise" /\ g.message = "" }
    \cup { g \in GenResponses : /\ g.kind = "json_list" /\ g.fence = "none"
                                /\ Len(g.missions) = PromptMaxMissions
                                /\ MissionGet(g.missions[1], "category") = Some("shopping") }

\* initial_state for one run, nothing answered yet
NewRun(survey) ==
    [survey_data |-> survey, pc |-> "calculate_co2", raised |-> FALSE,
     baseline_co2_kg |-> 0, profile_type |-> "BEGINNER",
     client_ok |-> TRUE, r1 |-> NoAnswer, r2 |-> NoAnswer, gen_resp |-> NoResponse]

TwinInit ==
    /\ twin \in { <<NewRun(s1), NewRun(s2)>> : s1 \in TwinSurveys, s2 \in TwinSurveys }
    /\ WorkflowIdle
    /\ StoreIdle
    /\ SideIdle

RunOver(run) == run.pc = "END" \/ run.raised

\* The second run is started when the first is over: the two share nothing,
\* so their order does not matter.
TwinTurn(i) ==
    /\ twin # NoTwin
    /\ ~RunOver(twin[i])
    /\ i = 2 => RunOver(twin[1])

\* node calculate_co2 of run i
TwinCalculateCo2(i) ==
    /\ TwinTurn(i) /\ twin[i].pc = "calculate_co2"
    /\ \E client_ok \in BOOLEAN :
       \E r1 \in AnswersTo(client_ok /\ PostsCommute(twin[i].survey_data)) \cap (TwinEstResponses \cup {NoAnswer}),
          r2 \in AnswersTo(client_ok /\ PostsFlight(twin[i].survey_data)) \cap (TwinEstResponses \cup {NoAnswer}) :
         LET res == CalculateCo2Footprint(twin[i].survey_data, client_ok, r1, r2)
         IN  twin' = [twin EXCEPT ![i] =
                        IF res.raises
                        THEN [@ EXCEPT !.raised = TRUE, !.client_ok = client_ok,
                                       !.r1 = r1, !.r2 = r2]
                        ELSE [@ EXCEPT !.baseline_co2_kg = res.baseline,
                                       !.pc = "classify_profile",
                                       !.client_ok = client_ok, !.r1 = r1, !.r2 = r2]]
    /\ UNCHANGED <<workflow_vars, store_vars, side_vars>>

\* node classify_profile of run i
TwinClassifyProfile(i) ==
    /\ TwinTurn(i) /\ twin[i].pc = "classify_profile"
    /\ LET res == ClassifyUserProfile(twin[i].survey_data)
       IN  twin' = [twin EXCEPT ![i] =
                      IF res.raises THEN [@ EXCEPT !.raised = TRUE]
                      ELSE [@ EXCEPT !.profile_type = res.profile,
                                     !.pc = "identify_opportunities"]]
    /\ UNCHANGED <<workflow_vars, store_vars, side_vars>>

\* nodes identify_opportunities and generate_missions of run i: neither
\* writes baseline_co2_kg or profile_type
TwinIdentifyOpportunities(i) ==
    /\ TwinTurn(i) /\ twin[i].pc = "identify_opportunities"
    /\ LET res == IdentifyOpportunities(twin[i].survey_data)
       IN  twin' = [twin EXCEPT ![i] =
                      IF res.raises THEN [@ EXCEPT !.raised = TRUE]
                      ELSE [@ EXCEPT !.pc = "generate_missions"]]
    /\ UNCHANGED <<workflow_vars, store_vars, side_vars>>

TwinGenerateMissions(i) ==
    /\ TwinTurn(i) /\ twin[i].pc = "generate_missions"
    /\ \E resp \in TwinGenResponses :
         twin' = [twin EXCEPT ![i] = [@ EXCEPT !.gen_resp = resp, !.pc = "END"]]
    /\ UNCHANGED <<workflow_vars, store_vars, side_vars>>

TwinNext ==
    \E i \in 1..2 :
        \/ TwinCalculateCo2(i)
        \/ TwinClassifyProfile(i)
        \/ TwinIdentifyOpportunities(i)
        \/ TwinGenerateMissions(i)

TwinSpec == TwinInit /\ [][TwinNext]_vars

(***************************************************************************)
(* Properties                                                              *)
(***************************************************************************)
\* every key of the survey that is present holds a value (none is null)
NoNullField(survey) == \A k \in DOMAIN survey : survey[k] # None

ProfileTypes == {"BEGINNER", "INTERMEDIATE", "EXPERT"}

EstimationDone == pc # "calculate_co2"

GenerationFailed(resp) ==
    \/ ParsedKind(resp) \in {"raise", "not_json", "json_object"}
    \/ Len(resp.missions) < 8

C2_FallbackOnGenerationFailure ==
    /\ ~(pc = "generate_missions" /\ raised)
    /\ pc = "END" =>
         /\ GenerationFailed(gen_resp) => missions = FallbackMissions /\ error # None
         /\ missions # FallbackMissions => error = None
         /\ (ParsedKind(gen_resp) = "json_list" /\ Len(gen_resp.missions) >= 8)
              => error = None /\ missions # FallbackMissions

C2_Witness ==
    /\ pc = "END"
    /\ gen_resp.kind = "json_list"
    /\ Len(gen_resp.missions) = 7
    /\ missions = FallbackMissions
    /\ error # None

\* C3: after generate_missions, missions holds between 8 and 12 records or is
\* exactly the fixed 3-item fallback list.
C3_EightToTwelveOrFallback ==
    pc = "END" => (Len(missions) \in 8..12 \/ missions = FallbackMissions)

\* C4: in the final state every mission has category among the four
\* categories and mission_type among the three mission types, whatever the
\* generation service wrote in those fields.
C4_EnumsValid ==
    pc = "END" =>
        \A i \in DOMAIN missions :
            /\ {"category", "mission_type"} \subseteq DOMAIN missions[i]
            /\ missions[i].category \in {"transportation", "food", "energy", "shopping"}
            /\ missions[i].mission_type \in {"one_time", "repeatable", "streak"}

C4_Witness ==
    /\ pc = "END"
    /\ error = None
    /\ MissionGet(gen_resp.missions[1], "category") = Some("one_time")
    /\ MissionGet(gen_resp.missions[1], "mission_type") = Some("food")
    /\ missions[1].category = opportunity_areas[1]
    /\ missions[1].mission_type = "one_time"

\* C5: for an answer of at least 8 mission objects, repair keeps every
\* record in order: an invalid mission_type becomes one_time, an invalid
\* category becomes opportunity_areas[0], valid values and every other field
\* stay as the service wrote them.
C5_RepairKeepsRecords ==
    (pc = "END" /\ ParsedKind(gen_resp) = "json_list" /\ Len(gen_resp.missions) >= 8
        /\ opportunity_areas # <<>>) =>
        /\ Len(missions) = Len(gen_resp.missions)
        /\ \A i \in DOMAIN missions :
             LET raw == gen_resp.missions[i]
                 out == missions[i]
                 raw_type == MissionGet(raw, "mission_type")
                 raw_cat  == MissionGet(raw, "category")
             IN  /\ DOMAIN out = DOMAIN raw \cup {"category", "mission_type"}
                 /\ \A k \in DOMAIN raw \ {"category", "mission_type"} : out[k] = raw[k]
                 /\ out.mission_type =
                      IF raw_type \in {Some("one_time"), Some("repeatable"), Some("streak")}
                      THEN raw_type[1] ELSE "one_time"
                 /\ out.category =
                      IF raw_cat \in {Some("transportation"), Some("food"),
                                      Some("energy"), Some("shopping")}
                      THEN raw_cat[1] ELSE opportunity_areas[1]

C5_Witness ==
    /\ pc = "END"
    /\ Len(missions) = 12
    /\ MissionGet(gen_resp.missions[1], "category") = Some("travel")
    /\ MissionGet(gen_resp.missions[1], "mission_type") = Some("monthly")
    /\ MissionGet(gen_resp.missions[12], "category") = Some("food")
    /\ opportunity_areas[1] = "food"
    /\ missions[1].category = "food"
    /\ missions[1].mission_type = "one_time"
    /\ missions[12].mission_type = "streak"

\* C6: calculate_co2_footprint never raises, for every survey and every
\* behaviour of the estimation service and of the client.
C6_EstimationNeverRaises == ~(pc = "calculate_co2" /\ raised)

\* C7: after calculate_co2_footprint, baseline_co2_kg is never negative.
C7_BaselineNonNegative == EstimationDone => baseline_co2_kg >= 0

\* every estimation POST that was made failed: no sub-estimate is a value
\* returned with status 200
EstimationCallsFailed ==
    /\ est_log.commute \notin {"service", "unusable"}
    /\ est_log.flight \notin {"service", "unusable"}

\* rate(commute_method) x commute_distance x 2 x 20 + flight-table + diet-table,
\* in thousandths of a kg; a field that is not answered adds nothing
TableBaseline(survey) ==
    LET method   == Get(survey, "commute_method")
        distance == Get(survey, "commute_distance")
        flight   == Get(survey, "flight_frequency")
        diet     == Get(survey, "diet_type")
    IN  (IF TruthyStr(method) /\ distance # None
         THEN EmissionsPerMile(method[1]) * distance[1] * 2 * 20 ELSE 0)
        + (IF TruthyStr(flight) THEN EstimateFlightCo2(flight[1]) ELSE 0)
        + (IF TruthyStr(diet) THEN DietEmissions(diet[1]) ELSE 0)

\* C8: when every estimation-service call fails and the generation call
\* fails, the run ends with the baseline of the fallback tables, the 3-item
\* static fallback set and a non-null error.
C8_AllServicesFail ==
    (pc = "END" /\ EstimationCallsFailed /\ GenerationFailed(gen_resp)) =>
        /\ baseline_co2_kg = Round2(TableBaseline(survey_data))
        /\ missions = FallbackMissions
        /\ error # None

IsEstimateCall(c) == c \in {"estimate:commute", "estimate:flight"}

\* C9: for a survey with every field missing, whatever the services do, the
\* run ends with baseline 0.0, opportunity_areas = [transportation, food,
\* energy] and at least 3 missions, and makes no estimation-service call.
C9_EmptySurvey ==
    DOMAIN survey_data = {} =>
        /\ ~raised
        /\ \A i \in DOMAIN service_calls : ~IsEstimateCall(service_calls[i])
        /\ EstimationDone => baseline_co2_kg = 0
        /\ pc \in {"generate_missions", "END"} =>
             opportunity_areas = <<"transportation", "food", "energy">>
        /\ pc = "END" => Len(missions) >= 3

C9_Witness ==
    /\ DOMAIN survey_data = {}
    /\ pc = "END"
    /\ est_log.client = "open_failed"
    /\ gen_resp.kind = "json_list"
    /\ Len(missions) = 13

\* The scores of the signals whose key is present in the survey
PresentPoints(survey, k, points) == IF k \in DOMAIN survey THEN points ELSE 0

PresentScore(survey, k, score) == IF k \in DOMAIN survey THEN score ELSE Score(0, 0, 0)

PresentClassScores(survey) ==
    AddScores(
        AddScores(PresentScore(survey, "time_commitment",
                               TimeScore(Text(survey, "time_commitment"))),
                  PresentScore(survey, "carbon_awareness",
                               AwarenessScore(Text(survey, "carbon_awareness")))),
        AddScores(PresentScore(survey, "current_habits",
                               HabitsScore(Get(survey, "current_habits"))),
                  PresentScore(survey, "achievable_changes",
                               AchievableScore(Text(survey, "achievable_changes")))))

PresentImpactScores(survey) ==
    [transportation |->
        PresentPoints(survey, "commute_method", CommuteMethodPoints(survey))
        + PresentPoints(survey, "commute_distance", CommuteDistancePoints(survey))
        + PresentPoints(survey, "flight_frequency", FlightPoints(survey)),
     food |->
        PresentPoints(survey, "diet_type", DietPoints(survey))
        + PresentPoints(survey, "eating_out_frequency", EatingOutPoints(survey))
        + PresentPoints(survey, "cooking_habits", CookingPoints(survey)),
     shopping |->
        PresentPoints(survey, "clothing_frequency", ClothingPoints(survey))
        + PresentPoints(survey, "purchase_behavior", PurchasePoints(survey))
        + PresentPoints(survey, "shopping_location", LocationPoints(survey)),
     energy |->
        PresentPoints(survey, "energy_control", EnergyControlPoints(survey))
        + PresentPoints(survey, "housing_type", HousingPoints(survey))]

\* no raise, no emission and no domain score from an absent key
AbsentKeysNoErrorNoEmission ==
    /\ ~raised
    /\ EstimationDone =>
         /\ {"commute_method", "commute_distance"} \ DOMAIN survey_data # {}
              => emissions.commute = 0
         /\ "flight_frequency" \notin DOMAIN survey_data => emissions.flight = 0
         /\ "diet_type" \notin DOMAIN survey_data => emissions.food = 0
    /\ pc \in {"generate_missions", "END"} =>
         impact_scores = PresentImpactScores(survey_data)

ClassifierDone == pc \in {"identify_opportunities", "generate_missions", "END"}

\* C10 as stated: with any subset of the keys absent, no stage raises and an
\* absent key contributes no score and no emission.
C10_AbsentKeyNoSignal ==
    NoNullField(survey_data) =>
        /\ AbsentKeysNoErrorNoEmission
        /\ ClassifierDone => class_scores = PresentClassScores(survey_data)

\* C10 amended: with any subset of the keys absent, no stage raises; an
\* absent key contributes no emission and no domain score, and no profile
\* score except that an absent current_habits counts as zero habits and adds
\* 2 to beginner_score.
C10_AbsentKeyNoSignalButHabits ==
    NoNullField(survey_data) =>
        /\ AbsentKeysNoErrorNoEmission
        /\ ClassifierDone =>
             class_scores =
                AddScores(PresentClassScores(survey_data),
                          IF "current_habits" \in DOMAIN survey_data
                          THEN Score(0, 0, 0) ELSE Score(2, 0, 0))

C10_Witness ==
    /\ pc = "END"
    /\ DOMAIN survey_data = SurveyKeys \ {"current_habits", "commute_distance"}
    /\ NoNullField(survey_data)
    /\ class_scores = Score(2, 4, 2)
    /\ emissions.commute = 0
    /\ impact_scores.transportation = 3

(***************************************************************************)
(* Profile Classifier: the tie-break                                       *)
(***************************************************************************)
\* every total the four scoring steps can give one class: 3 + 2 + 2 + 1
ScoreRange == 0..(3 + 2 + 2 + 1)

\* The tie-break on one triple of totals: EXPERT when expert_score is the
\* max, else INTERMEDIATE when intermediate_score is the max, and BEGINNER
\* exactly when beginner_score is strictly above both others.
TieBreakOf(scores, profile) ==
    LET b == scores[1]
        i == scores[2]
        e == scores[3]
        m == Max3(b, i, e)
    IN  /\ e = m => profile = "EXPERT"
        /\ (e # m /\ i = m) => profile = "INTERMEDIATE"
        /\ profile = "BEGINNER" <=> (b > i /\ b > e)
        /\ profile \in ProfileTypes

\* the final classification on every triple of totals, three-way ties included
TieBreakOnAllTotals ==
    \A b \in ScoreRange, i \in ScoreRange, e \in ScoreRange :
        TieBreakOf(Score(b, i, e), FinalClassification(Score(b, i, e)))

\* C11: classify_user_profile resolves by the fixed tie-break.  EXPERT wins
\* every tie it is part of, INTERMEDIATE wins a tie with BEGINNER, BEGINNER
\* needs a strictly greater score than both: in every run once the
\* classifier has run, and for the final classification on every triple of
\* totals.
C11_TieBreak ==
    /\ TieBreakOnAllTotals
    /\ (ClassifierDone /\ ~raised) => TieBreakOf(class_scores, profile_type)

\* a beginner/expert tie went to EXPERT (the intermediate total is lower)
C11_Witness ==
    /\ ClassifierDone
    /\ class_scores = Score(3, 2, 3)
    /\ profile_type = "EXPERT"

\* a beginner/intermediate tie went to INTERMEDIATE (the expert total is lower)
C11_WitnessIntermediate ==
    /\ ClassifierDone
    /\ class_scores = Score(3, 3, 2)
    /\ profile_type = "INTERMEDIATE"

(***************************************************************************)
(* Determinism of the classifier and the estimator                         *)
(***************************************************************************)
\* the part of a survey the classifier reads
FourFields(survey) == [k \in DOMAIN survey \cap ClassifierKeys |-> survey[k]]

SameAnswers(a, b) ==
    /\ a.client_ok = b.client_ok
    /\ a.r1 = b.r1
    /\ a.r2 = b.r2
    /\ a.gen_resp = b.gen_resp

\* C12: profile_type is a function of only time_commitment, carbon_awareness,
\* current_habits and achievable_changes: two runs that reach END on surveys
\* agreeing on these four fields have the same profile_type, whatever the
\* other fields and the services' answers are; and two runs on the same
\* survey given the same answers have the same baseline_co2_kg and
\* profile_type.
C12_Deterministic ==
    (twin # NoTwin /\ twin[1].pc = "END" /\ twin[2].pc = "END") =>
        /\ FourFields(twin[1].survey_data) = FourFields(twin[2].survey_data)
              => twin[1].profile_type = twin[2].profile_type
        /\ (twin[1].survey_data = twin[2].survey_data /\ SameAnswers(twin[1], twin[2]))
              => /\ twin[1].baseline_co2_kg = twin[2].baseline_co2_kg
                 /\ twin[1].profile_type = twin[2].profile_type

\* two finished runs that agree on the four fields and on nothing else the
\* estimator reads, given different answers, with different baselines
C12_Witness ==
    /\ twin # NoTwin /\ twin[1].pc = "END" /\ twin[2].pc = "END"
    /\ twin[1].survey_data # twin[2].survey_data
    /\ FourFields(twin[1].survey_data) = FourFields(twin[2].survey_data)
    /\ Get(twin[1].survey_data, "diet_type") = Some("Vegan")
    /\ ~SameAnswers(twin[1], twin[2])
    /\ twin[1].baseline_co2_kg # twin[2].baseline_co2_kg
    /\ twin[1].profile_type = "INTERMEDIATE"

\* the same survey run twice with the same answers of both services
C12_WitnessSameRun ==
    /\ twin # NoTwin /\ twin[1].pc = "END" /\ twin[2].pc = "END"
    /\ twin[1].survey_data = twin[2].survey_data
    /\ SameAnswers(twin[1], twin[2])
    /\ twin[1].r1.kind = "ok"
    /\ twin[1].baseline_co2_kg > 0

(***************************************************************************)
(* Opportunity Ranker: the contract on opportunity_areas                   *)
(***************************************************************************)
RankerDone == pc \in {"generate_missions", "END"}

\* the tags of a list, and a list without a repeated tag
TagsOf(areas) == {areas[i] : i \in DOMAIN areas}

NoRepeat(areas) == \A i \in DOMAIN areas, j \in DOMAIN areas : areas[i] = areas[j] => i = j

\* non-increasing in score, equal scores in the order transportation, food,
\* shopping, energy
RankedBy(areas, scores) ==
    \A i \in DOMAIN areas, j \in DOMAIN areas :
        i < j => \/ scores[areas[i]] > scores[areas[j]]
                 \/ /\ scores[areas[i]] = scores[areas[j]]
                    /\ AreaIndex(areas[i]) < AreaIndex(areas[j])

\* C13: identify_opportunities sets opportunity_areas to 1 to 3 tags of the
\* four domains, none repeated, in non-increasing order of score with equal
\* scores in the order transportation, food, shopping, energy; when a score
\* is positive every listed tag has a positive score and no omitted domain
\* has a strictly higher score than a listed one.
C13_RankedAreas ==
    (RankerDone /\ ~raised) =>
        /\ Len(opportunity_areas) \in 1..3
        /\ TagsOf(opportunity_areas) \subseteq Areas
        /\ NoRepeat(opportunity_areas)
        /\ RankedBy(opportunity_areas, impact_scores)
        /\ (\E a \in Areas : impact_scores[a] > 0) =>
              /\ \A a \in TagsOf(opportunity_areas) : impact_scores[a] > 0
              /\ \A o \in Areas \ TagsOf(opportunity_areas), a \in TagsOf(opportunity_areas) :
                    impact_scores[o] <= impact_scores[a]

\* all four domains score, food and shopping equally: food is listed last
\* and shopping, with the same score, is left out
C13_Witness ==
    /\ RankerDone
    /\ impact_scores = [transportation |-> 3, food |-> 2, shopping |-> 2, energy |-> 5]
    /\ opportunity_areas = <<"energy", "transportation", "food">>

\* C14: when the four domain scores are all 0, identify_opportunities returns
\* exactly [transportation, food, energy]; opportunity_areas is never empty
\* after the ranker stage.
C14_DefaultAreas ==
    (RankerDone /\ ~raised) =>
        /\ opportunity_areas # <<>>
        /\ (\A a \in Areas : impact_scores[a] = 0)
              => opportunity_areas = <<"transportation", "food", "energy">>

\* an answered survey none of whose answers scores in any domain
C14_Witness ==
    /\ RankerDone
    /\ Get(survey_data, "commute_method") = Some("I bike")
    /\ Get(survey_data, "diet_type") = Some("Flexitarian")
    /\ Get(survey_data, "flight_frequency") = Some("Never or almost never")
    /\ \A a \in Areas : impact_scores[a] = 0
    /\ opportunity_areas = <<"transportation", "food", "energy">>

(***************************************************************************)
(* Levels, plant stages and streaks: game_mechanics.py and the copies in   *)
(* routers/activities.py that update_user_stats calls                      *)
(***************************************************************************)
\* the while loop of calculate_level, from one test of its condition on
RECURSIVE LevelLoop(_, _, _)
LevelLoop(level, xp_needed, total_xp) ==
    IF xp_needed <= total_xp
    THEN LevelLoop(level + 1, xp_needed + (level + 1) * 100, total_xp)
    ELSE level - 1

\* game_mechanics.calculate_level
CalculateLevel(total_xp) == LevelLoop(1, 0, total_xp)

\* the for loop of get_level_threshold, from i on
RECURSIVE ThresholdLoop(_, _, _)
ThresholdLoop(i, level, total) ==
    IF i <= level THEN ThresholdLoop(i + 1, level, total + i * 100) ELSE total

\* game_mechanics.get_level_threshold
GetLevelThreshold(level) == ThresholdLoop(2, level, 0)

\* mutant: the loop stops one award early, `while xp_needed < total_xp`
RECURSIVE LevelLoop_Strict(_, _, _)
LevelLoop_Strict(level, xp_needed, total_xp) ==
    IF xp_needed < total_xp
    THEN LevelLoop_Strict(level + 1, xp_needed + (level + 1) * 100, total_xp)
    ELSE level - 1

ActivitiesCalculateLevel_Strict(total_xp) == LevelLoop_Strict(1, 0, total_xp)

\* the while loop of the copy of calculate_level in routers/activities.py
RECURSIVE ActivitiesLevelLoop(_, _, _)
ActivitiesLevelLoop(level, xp_needed, total_xp) ==
    IF xp_needed <= total_xp
    THEN ActivitiesLevelLoop(level + 1, xp_needed + (level + 1) * 100, total_xp)
    ELSE level - 1

\* routers/activities.calculate_level
ActivitiesCalculateLevel(total_xp) == ActivitiesLevelLoop(1, 0, total_xp)

\* the for loop of the copy of get_level_threshold in routers/activities.py
RECURSIVE ActivitiesThresholdLoop(_, _, _)
ActivitiesThresholdLoop(i, level, total) ==
    IF i <= level THEN ActivitiesThresholdLoop(i + 1, level, total + i * 100) ELSE total

\* routers/activities.get_level_threshold
ActivitiesGetLevelThreshold(level) == ActivitiesThresholdLoop(2, level, 0)

\* routers/activities.get_plant_stage
ActivitiesGetPlantStage(level) ==
    IF level <= 2 THEN 1
    ELSE IF level <= 4 THEN 2
    ELSE IF level <= 7 THEN 3
    ELSE IF level <= 10 THEN 4
    ELSE IF level <= 15 THEN 5
    ELSE IF level <= 20 THEN 6
    ELSE 7

\* A stored last_activity_date string by its form: "date" is YYYY-MM-DD,
\* "timestamp" a full ISO timestamp (it holds a "T"), "bad" any other text,
\* "empty" the empty string; day is the day it names.
DateText(form, day) == [form |-> form, day |-> day]

\* today.isoformat()
IsoFormat(day) == DateText("date", day)

\* mutant: a missed day does not reset the streak, it counts on
NextStreak_NoReset(last_activity_str, current_streak, day) ==
    IF last_activity_str # None /\ last_activity_str[1].form # "empty"
    THEN IF last_activity_str[1].form \in {"date", "timestamp"}
         THEN IF last_activity_str[1].day = day THEN current_streak
              ELSE current_streak + 1
         ELSE 1
    ELSE 1

\* Calculate streak: current_streak after the comparison of the last
\* activity date with today
NextStreak(last_activity_str, current_streak, day) ==
    IF last_activity_str # None /\ last_activity_str[1].form # "empty"
    THEN IF last_activity_str[1].form \in {"date", "timestamp"}
         THEN IF last_activity_str[1].day = day THEN current_streak
              ELSE IF last_activity_str[1].day = day - 1 THEN current_streak + 1
              ELSE 1
         ELSE 1
    ELSE 1

\* profile_data of POST /missions/generate: the row a pipeline result is
\* stored as.  xp_to_next_level is written as the number 100.
ProfileData(uid, result_profile_type, result_baseline, result_areas) ==
    [user_id |-> uid, profile_type |-> result_profile_type,
     baseline_co2_kg |-> result_baseline, opportunity_areas |-> result_areas,
     total_xp |-> 0, current_level |-> 1, xp_current_level |-> 0,
     xp_to_next_level |-> 100, plant_stage |-> 1, plant_type |-> "oak",
     total_co2_saved |-> 0, total_missions_completed |-> 0, total_money_saved |-> 0,
     current_streak_days |-> 0, longest_streak_days |-> 0]

\* The row after on_conflict="user_id" upsert of data: the columns of data
\* are written, a column data does not name keeps its value, and a new row
\* has null in last_activity_date.
Upsert(row, data) ==
    [k \in DOMAIN data \cup {"last_activity_date"} |->
        IF k \in DOMAIN data THEN data[k]
        ELSE IF row = NoRow THEN None ELSE row[k]]

\* update_data of update_user_stats for the profile read, and the row after
\* the update
UpdatedProfile(profile, xp, co2, n_missions, money, day) ==
    LET new_total_xp == profile.total_xp + xp
        new_level    == ActivitiesCalculateLevel(new_total_xp)
        old_level    == profile.current_level
        xp_in_level  == new_total_xp - ActivitiesGetLevelThreshold(new_level)
        xp_to_next   == ActivitiesGetLevelThreshold(new_level + 1) - new_total_xp
        current_streak == NextStreak(profile.last_activity_date,
                                     profile.current_streak_days, day)
        longest_streak == IF current_streak > profile.longest_streak_days
                          THEN current_streak ELSE profile.longest_streak_days
    IN  [profile EXCEPT
            !.total_xp = new_total_xp,
            !.current_level = new_level,
            !.xp_current_level = xp_in_level,
            !.xp_to_next_level = xp_to_next,
            !.total_co2_saved = @ + co2,
            !.total_missions_completed = @ + n_missions,
            !.total_money_saved = @ + money,
            !.last_activity_date = Some(IsoFormat(day)),
            !.current_streak_days = current_streak,
            !.longest_streak_days = longest_streak,
            !.plant_stage = IF new_level > old_level
                            THEN ActivitiesGetPlantStage(new_level) ELSE @]

\* the largest total_xp and the last day the model follows a profile to
MaxTotalXp == 510

MaxDay == 4

\* xp_reward of a completed mission, as the generation service set it
XpAwards == {99, 100, 101}

\* what last_activity_date holds when the profile is (re)created: nothing,
\* or what an earlier update or an earlier version of the service wrote
StoredDates ==
    {None, Some(DateText("empty", 0)), Some(DateText("bad", 0)),
     Some(DateText("timestamp", -1)), Some(DateText("timestamp", 0)),
     Some(DateText("date", -3))}

\* The user's profile as POST /missions/generate stores it, or no profile
GameInit ==
    /\ today = 0
    /\ \E d \in StoredDates :
         user_profiles \in
            { NoRow,
              [Upsert(NoRow, ProfileData("user-1", "BEGINNER", 0,
                                         <<"transportation", "food", "energy">>))
                 EXCEPT !.last_activity_date = d] }
    /\ user_missions = <<>>
    /\ requests = <<>>
    /\ twin = NoTwin
    /\ WorkflowIdle
    /\ SideIdle

\* update_user_stats(user_id, xp, co2, missions, money), read and update in
\* one step: as complete_mission calls it (missions = 1) and as
\* award_receipt_xp calls it (0, 0, 0).
UpdateUserStats ==
    /\ \E xp \in XpAwards, n_missions \in {0, 1} :
         IF user_profiles = NoRow
         THEN UNCHANGED user_profiles
         ELSE /\ user_profiles.total_xp + xp <= MaxTotalXp
              /\ user_profiles' = UpdatedProfile(user_profiles, xp, 0, n_missions, 0, today)
    /\ UNCHANGED <<today, user_missions, requests, twin, workflow_vars, side_vars>>

\* midnight
NextDay ==
    /\ today < MaxDay
    /\ today' = today + 1
    /\ UNCHANGED <<user_profiles, user_missions, requests, twin, workflow_vars, side_vars>>

GameNext == UpdateUserStats \/ NextDay

GameSpec == GameInit /\ [][GameNext]_vars

(***************************************************************************)
(* Levels                                                                  *)
(***************************************************************************)
\* the range of total_xp and of levels the level table is checked on
MaxTableXp == 1500

MaxTableLevel == 6

\* the sum of i * 100 for i = 2..n
RECURSIVE SumOfSteps(_)
SumOfSteps(n) == IF n < 2 THEN 0 ELSE SumOfSteps(n - 1) + n * 100

\* the greatest level n >= 1 whose threshold is at most total_xp
GreatestLevel(total_xp) ==
    CHOOSE n \in 1..MaxTableLevel :
        /\ GetLevelThreshold(n) <= total_xp
        /\ \A k \in 1..MaxTableLevel : GetLevelThreshold(k) <= total_xp => k <= n

\* calculate_level and get_level_threshold on every total_xp and level of
\* the table, in both files
LevelTable ==
    /\ GetLevelThreshold(1) = 0 /\ GetLevelThreshold(2) = 200 /\ GetLevelThreshold(3) = 500
    /\ \A n \in 1..MaxTableLevel :
          /\ GetLevelThreshold(n) = SumOfSteps(n)
          /\ ActivitiesGetLevelThreshold(n) = GetLevelThreshold(n)
    /\ \A n \in 1..(MaxTableLevel - 1) :
          /\ CalculateLevel(GetLevelThreshold(n)) = n
          /\ n >= 2 => CalculateLevel(GetLevelThreshold(n) - 1) = n - 1
    /\ \A x \in 0..MaxTableXp :
          /\ CalculateLevel(x) = GreatestLevel(x)
          /\ ActivitiesCalculateLevel(x) = CalculateLevel(x)
          /\ x > 0 => CalculateLevel(x - 1) <= CalculateLevel(x)

C15_WitnessBelow ==
    /\ user_profiles # NoRow
    /\ user_profiles.total_xp = GetLevelThreshold(3) - 1
    /\ user_profiles.current_level = 2

\* C16: calculate_level(299) returns 2 and calculate_level(300) returns 3:
\* level 3 is reached at exactly 300 total XP.
C16_Level3At300 ==
    user_profiles # NoRow =>
        /\ user_profiles.total_xp = 299 =>
              (user_profiles.current_level = 2 /\ CalculateLevel(299) = 2)
        /\ user_profiles.total_xp = 300 =>
              (user_profiles.current_level = 3 /\ CalculateLevel(300) = 3)

(***************************************************************************)
(* Streaks                                                                 *)
(***************************************************************************)
\* the day a stored last_activity_date names, when it can be parsed
Parses(last) == last # None /\ last[1].form \in {"date", "timestamp"}

\* What C17 says one update_user_stats call does to the streak of the
\* profile it finds (old), given the profile it leaves (new) on day d.  A
\* stored date later than today is a case the claim does not speak of.
StreakRule(old, new, d) ==
    LET last == old.last_activity_date
    IN  /\ (Parses(last) /\ last[1].day = d)
              => new.current_streak_days = old.current_streak_days
        /\ (Parses(last) /\ last[1].day = d - 1)
              => new.current_streak_days = old.current_streak_days + 1
        /\ (last = None \/ ~Parses(last) \/ last[1].day < d - 1)
              => new.current_streak_days = 1
        /\ new.longest_streak_days =
              (IF new.current_streak_days > old.longest_streak_days
               THEN new.current_streak_days ELSE old.longest_streak_days)
        /\ new.last_activity_date = Some(IsoFormat(d))
        /\ new.longest_streak_days >= old.longest_streak_days
        /\ new.longest_streak_days >= new.current_streak_days

\* C17: each update_user_stats call on an existing profile leaves
\* current_streak_days unchanged when last_activity_date is today, adds 1
\* when it is yesterday, and sets it to 1 for an older, unparseable or
\* missing date; afterwards longest_streak_days is the max of the previous
\* longest and the new current, and last_activity_date is today.  So over
\* any sequence of calls longest_streak_days never decreases and is never
\* below current_streak_days.
C17_StreakSteps ==
    [][ (user_profiles # NoRow /\ user_profiles' # user_profiles)
            => StreakRule(user_profiles, user_profiles', today) ]_vars

\* a streak of three days, then a missed day, then an activity
C17_Witness ==
    /\ user_profiles # NoRow
    /\ today = MaxDay
    /\ user_profiles.last_activity_date = Some(IsoFormat(today))
    /\ user_profiles.current_streak_days = 1
    /\ user_profiles.longest_streak_days = 3
    /\ user_profiles.total_missions_completed = 4

(***************************************************************************)
(* POST /missions/generate: the workflow result and the rows stored from   *)
(* it, every database call one step                                        *)
(***************************************************************************)
\* mission_workflow.ainvoke(initial_state) as a function of the survey and
\* of what the services answer: the four nodes in the order of the graph
WorkflowResult(survey, client_ok, r1, r2, resp) ==
    LET est == CalculateCo2Footprint(survey, client_ok, r1, r2)
        cls == ClassifyUserProfile(survey)
        opp == IdentifyOpportunities(survey)
        gen == GenerateMissionsResult(opp.areas, resp)
    IN  [raises |-> est.raises \/ cls.raises \/ opp.raises,
         baseline_co2_kg |-> est.baseline, profile_type |-> cls.profile,
         opportunity_areas |-> opp.areas, missions |-> gen.missions,
         error |-> gen.error]

\* mission_data: the row built from one mission of the result.  inserted_by
\* is not a column: it names the request that inserted the row.
MissionData(uid, mission, request) ==
    [user_id |-> uid, title |-> mission.title, description |-> mission.description,
     category |-> mission.category, co2_saved_kg |-> MissionGet(mission, "co2_saved_kg"),
     money_saved |-> MissionGet(mission, "money_saved"), xp_reward |-> mission.xp_reward,
     mission_type |-> mission.mission_type,
     tips |-> IF "tips" \in DOMAIN mission THEN mission.tips ELSE <<>>,
     status |-> "available", inserted_by |-> request]

\* missions_to_insert
MissionsToInsert(uid, result_missions, request) ==
    [i \in DOMAIN result_missions |-> MissionData(uid, result_missions[i], request)]

\* the generate requests of one user the model runs side by side
MaxRequests == 2

\* the survey of the user in table survey_responses
StoredSurvey == MkSurvey(Blank)

NoResult == <<>>

\* the rows a run before the ones of the model left: the fallback set
PreviousRows == MissionsToInsert("user-1", FallbackMissions, 0)

StoreInit ==
    /\ today = 0
    /\ user_profiles = NoRow
    /\ user_missions \in {<<>>, PreviousRows}
    /\ requests = [i \in 1..MaxRequests |-> [pc |-> "run_workflow", result |-> NoResult]]
    /\ twin = NoTwin
    /\ WorkflowIdle
    /\ SideIdle

\* a request that raised: except Exception -> HTTP 500
Failed(i) == [requests EXCEPT ![i].pc = "failed"]

\* fetch the survey and run the workflow on it
ReqRunWorkflow(i) ==
    /\ requests[i].pc = "run_workflow"
    /\ \E resp \in TwinGenResponses :
         LET result == WorkflowResult(StoredSurvey, TRUE, NoAnswer, NoAnswer, resp)
         IN  requests' = IF result.raises THEN Failed(i)
                         ELSE [requests EXCEPT ![i].pc = "upsert_profile",
                                               ![i].result = result]
    /\ UNCHANGED <<today, user_profiles, user_missions, twin, workflow_vars, side_vars>>

\* Store user profile in Supabase
ReqUpsertProfile(i) ==
    /\ requests[i].pc = "upsert_profile"
    /\ \E db_ok \in BOOLEAN :
         IF db_ok
         THEN /\ user_profiles' =
                    Upsert(user_profiles,
                           ProfileData("user-1", requests[i].result.profile_type,
                                       requests[i].result.baseline_co2_kg,
                                       requests[i].result.opportunity_areas))
              /\ requests' = [requests EXCEPT ![i].pc = "delete_missions"]
         ELSE /\ requests' = Failed(i)
              /\ UNCHANGED user_profiles
    /\ UNCHANGED <<today, user_missions, twin, workflow_vars, side_vars>>

\* build missions_to_insert, then delete existing missions for this user
ReqDeleteMissions(i) ==
    /\ requests[i].pc = "delete_missions"
    /\ \E db_ok \in BOOLEAN :
         IF db_ok
         THEN /\ user_missions' = <<>>
              /\ requests' = [requests EXCEPT ![i].pc = "insert_missions"]
         ELSE /\ requests' = Failed(i)
              /\ UNCHANGED user_missions
    /\ UNCHANGED <<today, user_profiles, twin, workflow_vars, side_vars>>

\* insert new missions: one insert of the whole list
ReqInsertMissions(i) ==
    /\ requests[i].pc = "insert_missions"
    /\ \E db_ok \in BOOLEAN :
         IF db_ok
         THEN /\ user_missions' =
                    user_missions \o MissionsToInsert("user-1", requests[i].result.missions, i)
              /\ requests' = [requests EXCEPT ![i].pc = "done"]
         ELSE /\ requests' = Failed(i)
              /\ UNCHANGED user_missions
    /\ UNCHANGED <<today, user_profiles, twin, workflow_vars, side_vars>>

StoreNext ==
    \E i \in 1..MaxRequests :
        \/ ReqRunWorkflow(i)
        \/ ReqUpsertProfile(i)
        \/ ReqDeleteMissions(i)
        \/ ReqInsertMissions(i)

StoreSpec == StoreInit /\ [][StoreNext]_vars

\* the request has answered: 200 or 500
RequestOver(i) == requests[i].pc \in {"done", "failed"}

\* the complete mission list of the run before or of a run of the model
CompleteRuns ==
    {<<>>, PreviousRows}
    \cup { MissionsToInsert("user-1", requests[i].result.missions, i) :
             i \in {j \in 1..MaxRequests : requests[j].result # NoResult} }

\* C18: POST /missions/generate replaces the stored mission set atomically.
\* Once every request has answered, also one that failed partway and under
\* any interleaving of two requests of the user, the user_missions rows are
\* the complete list of one run, the previous or a new one: never empty when
\* there were rows, never part of a list, never the lists of two runs.
C18_AtomicReplace ==
    (requests # <<>> /\ \A i \in 1..MaxRequests : RequestOver(i)) =>
        /\ user_missions \in CompleteRuns
        /\ user_missions = <<>> => \A i \in 1..MaxRequests : requests[i].pc = "failed"

\* the rows of two runs side by side: both requests deleted before either inserted
C18_UnionOfTwoRuns ==
    /\ requests # <<>>
    /\ \A i \in 1..MaxRequests : requests[i].pc = "done"
    /\ {user_missions[k].inserted_by : k \in DOMAIN user_missions} = {1, 2}

(***************************************************************************)
(* Mission Generator: the other fields of a mission                        *)
(***************************************************************************)
\* C19: in the final state of every run, every mission of state.missions has
\* an integer xp_reward in 0..100, a co2_saved_kg >= 0 and 2 to 3 tips,
\* whatever the generation service returned for those fields.
C19_MissionFieldRanges ==
    (pc = "END" /\ ~raised) =>
        \A i \in DOMAIN missions :
            /\ missions[i].xp_reward \in 0..100
            /\ missions[i].co2_saved_kg >= 0
            /\ Len(missions[i].tips) \in 2..3

(***************************************************************************)
(* generate_missions called on a state of its own, as a node or a test can *)
(* call it: any profile and any list of opportunity areas, the empty list  *)
(* included                                                                *)
(***************************************************************************)
NodeAreas ==
    { <<>>, <<"food">>, <<"energy", "shopping">>, <<"transportation", "food", "energy">>,
      <<"shopping", "energy", "transportation">> }

NodeInit ==
    /\ pc = "generate_missions"
    /\ raised = FALSE
    /\ user_id = "user-1"
    /\ survey_data \in {MkSurvey(Blank), FullSurvey}
    /\ baseline_co2_kg = 0
    /\ profile_type \in ProfileTypes
    /\ opportunity_areas \in NodeAreas
    /\ missions = <<>>
    /\ error = None
    /\ emissions = Parts(0, 0, 0)
    /\ est_log = NotStarted
    /\ class_scores = Score(0, 0, 0)
    /\ impact_scores = [a \in Areas |-> 0]
    /\ gen_resp = NoResponse
    /\ service_calls = <<>>
    /\ twin = NoTwin
    /\ StoreIdle
    /\ SideIdle

NodeNext == GenerateMissions

NodeSpec == NodeInit /\ [][NodeNext]_vars

\* the service answered with a list of at least 8 objects, one of them with
\* a category that is not one of the four
InvalidCategoryIn(resp) ==
    /\ ParsedKind(resp) = "json_list"
    /\ Len(resp.missions) >= MinMissions
    /\ \E i \in DOMAIN resp.missions :
          MissionGet(resp.missions[i], "category") \notin {Some(c) : c \in valid_categories}

\* C20: when generate_missions runs with an empty opportunity_areas and the
\* service returns at least 8 missions of which one has an invalid category,
\* that category is overwritten with energy, the generated missions are kept
\* and error stays None: the stage does not fall back to the static set.
C20_EnergyWhenNoAreas ==
    (pc = "END" /\ opportunity_areas = <<>> /\ InvalidCategoryIn(gen_resp)) =>
        /\ error = None
        /\ Len(missions) = Len(gen_resp.missions)
        /\ \A i \in DOMAIN missions :
              /\ missions[i].title = gen_resp.missions[i].title
              /\ MissionGet(gen_resp.missions[i], "category")
                     \notin {Some(c) : c \in valid_categories}
                   => missions[i].category = "energy"

\* with a list of areas the same answer is kept and repaired
C20_RepairedWithAreas ==
    /\ pc = "END" /\ opportunity_areas = <<"food">> /\ InvalidCategoryIn(gen_resp)
    /\ error = None
    /\ missions[1].category = "food"

(***************************************************************************)
(* Commute methods the rate tables do not list                             *)
(***************************************************************************)
\* the seven labels that are keys of activity_map and of emissions_per_mile
KnownCommuteMethods ==
    {"I drive alone", "I carpool with others",
     "Public transportation (bus, train, subway)", "I bike", "I walk",
     "I work/study from home", "Mix of multiple methods"}

\* the survey names a commute method outside the seven labels, with a
\* positive distance
UnmappedCommute(survey) ==
    LET method   == Get(survey, "commute_method")
        distance == Get(survey, "commute_distance")
    IN  /\ TruthyStr(method) /\ method[1] \notin KnownCommuteMethods
        /\ distance # None /\ distance[1] > 0

\* C21: for a non-empty commute_method outside the seven known labels and a
\* positive commute_distance d, the commute sub-estimate added to the
\* baseline is the mixed-rate value 0.25 x d x 2 x 20 (in thousandths of a
\* kg: 250 x d x 2 x 20), on the service-backed path as on the fallback path.
C21_UnmappedCommuteMixedRate ==
    (EstimationDone /\ UnmappedCommute(survey_data)) =>
        emissions.commute = 250 * survey_data["commute_distance"][1] * 2 * 20

\* the fallback path does charge the mixed rate
C21_FallbackMixedRate ==
    /\ EstimationDone /\ UnmappedCommute(survey_data)
    /\ est_log.whole_fallback
    /\ emissions.commute = 250 * survey_data["commute_distance"][1] * 2 * 20
    /\ emissions.commute > 0

(***************************************************************************)
(* What each stage writes                                                  *)
(***************************************************************************)
\* C22: each stage writes only its own field.  No step changes survey_data
\* or user_id; classify_user_profile, identify_opportunities and
\* generate_missions leave baseline_co2_kg unchanged; identify_opportunities
\* and generate_missions leave profile_type unchanged; generate_missions
\* leaves opportunity_areas unchanged; only generate_missions writes missions
\* and error.
C22_StagesWriteOwnField ==
    [][ /\ survey_data' = survey_data
        /\ user_id' = user_id
        /\ pc # "calculate_co2" => baseline_co2_kg' = baseline_co2_kg
        /\ pc \in {"identify_opportunities", "generate_missions"}
             => profile_type' = profile_type
        /\ pc = "generate_missions" => opportunity_areas' = opportunity_areas
        /\ pc # "generate_missions" => (missions' = missions /\ error' = error)
      ]_vars

\* a run in which every stage wrote a value other than the initial one, all
\* four still in the state at the end
C22_Witness ==
    /\ pc = "END"
    /\ baseline_co2_kg = Round2(emissions.commute + emissions.flight + emissions.food)
    /\ baseline_co2_kg > 0
    /\ profile_type = ClassifyUserProfile(survey_data).profile
    /\ profile_type # "BEGINNER"
    /\ opportunity_areas = IdentifyOpportunities(survey_data).areas
    /\ opportunity_areas # DefaultOpportunities
    /\ missions # <<>> /\ error = None

(***************************************************************************)
(* Calls to the services in one run                                        *)
(***************************************************************************)
\* how many times a service call of this name was made
CallCount(name) == Cardinality({i \in DOMAIN service_calls : service_calls[i] = name})

\* C23: in a run, whatever fails, the generation service is invoked at most
\* once and the estimation service at most once for the commute and once for
\* the flights, never for food; a failed call is not retried and is followed
\* by exactly one fallback computation for that call.
C23_OneCallOneFallback ==
    /\ \A i \in DOMAIN service_calls :
          service_calls[i] \in {"estimate:commute", "estimate:flight", "generate"}
    /\ CallCount("estimate:commute") <= 1
    /\ CallCount("estimate:flight") <= 1
    /\ CallCount("generate") <= 1
    /\ est_log.commute = "fallback" => est_log.transport_table_runs = 1
    /\ est_log.flight = "fallback" => est_log.flight_table_runs = 1
    /\ (pc = "END" /\ GenerationFailed(gen_resp)) => missions = FallbackMissions

\* the calls are made at most once each, and a failed call whose run goes on
\* normally has its table run once
C23_CallsAtMostOnce ==
    /\ pc = "END"
    /\ CallCount("estimate:commute") = 1
    /\ CallCount("estimate:flight") = 1
    /\ CallCount("generate") = 1
    /\ est_log.commute = "fallback" /\ est_log.transport_table_runs = 1
    /\ est_log.flight = "fallback" /\ est_log.flight_table_runs = 1

(***************************************************************************)
(* Surveys as POST /survey stores them: every field present, the ones left *)
(* unset holding null                                                      *)
(***************************************************************************)
\* the row of survey_responses: model_dump(exclude_none=False) writes all keys
StoredRow(survey) == DOMAIN survey = SurveyKeys

\* the survey with its null fields left out
WithoutNulls(survey) == [k \in {x \in DOMAIN survey : survey[x] # None} |-> survey[k]]

\* C24: for a stored survey with any of its optional fields null, the run
\* goes through every stage without an exception, and the classifier and the
\* ranker give what they give for the survey with those fields absent.
C24_NullFieldsLikeAbsent ==
    StoredRow(survey_data) =>
        /\ ~raised
        /\ pc \in {"identify_opportunities", "generate_missions", "END"} =>
              profile_type = ClassifyUserProfile(WithoutNulls(survey_data)).profile
        /\ pc \in {"generate_missions", "END"} =>
              opportunity_areas = IdentifyOpportunities(WithoutNulls(survey_data)).areas

\* a stored survey with one null field whose run does reach the end
C24_NullFieldRunEnds ==
    /\ StoredRow(survey_data) /\ ~NoNullField(survey_data)
    /\ pc = "END" /\ ~raised

(***************************************************************************)
(* The profile over generate requests and awards                           *)
(***************************************************************************)
\* the results mission_workflow.ainvoke can hand back for the stored survey
StoredSurveyResults ==
    { WorkflowResult(StoredSurvey, TRUE, NoAnswer, NoAnswer, resp) : resp \in TwinGenResponses }

\* POST /missions/generate as one step, every database call succeeding:
\* run the workflow on the stored survey, upsert the profile, replace the
\* missions.  The request number 0 marks the rows.
GenerateRequest ==
    /\ \E result \in StoredSurveyResults :
         /\ ~result.raises
         /\ user_profiles' =
               Upsert(user_profiles,
                      ProfileData("user-1", result.profile_type,
                                  result.baseline_co2_kg, result.opportunity_areas))
         /\ user_missions' = MissionsToInsert("user-1", result.missions, 0)
    /\ UNCHANGED <<today, requests, twin, workflow_vars, side_vars>>

ProfileNext == GenerateRequest \/ UpdateUserStats \/ NextDay

ProfileSpec == GameInit /\ [][ProfileNext]_vars

\* the columns an award accumulates
AccumulatedColumns ==
    {"total_xp", "current_level", "plant_stage", "current_streak_days",
     "longest_streak_days", "total_co2_saved", "total_missions_completed",
     "total_money_saved"}

\* C25: over any sequence of generate requests and of awards with
\* non-negative XP, the stored total_xp and current_level never decrease;
\* a generate request for a user who has a profile keeps the XP, level,
\* plant stage, streaks and lifetime totals of that profile.
C25_XpNeverDecreases ==
    [][ (user_profiles # NoRow /\ user_profiles' # NoRow) =>
            /\ user_profiles'.total_xp >= user_profiles.total_xp
            /\ user_profiles'.current_level >= user_profiles.current_level
            /\ GenerateRequest =>
                 \A k \in AccumulatedColumns : user_profiles'[k] = user_profiles[k]
      ]_vars

\* a profile back at 0 XP and level 1 on a day an award was stored
C25_XpLostByGenerate ==
    /\ user_profiles # NoRow
    /\ user_profiles.last_activity_date = Some(IsoFormat(today))
    /\ user_profiles.total_xp = 0
    /\ user_profiles.current_level = 1
    /\ user_profiles.current_streak_days = 0

\* C26: in every stored profile, after its creation by a generate request
\* and after any sequence of update_user_stats calls, current_level =
\* calculate_level(total_xp), xp_current_level = total_xp -
\* get_level_threshold(current_level), xp_to_next_level =
\* get_level_threshold(current_level + 1) - total_xp and plant_stage =
\* get_plant_stage(current_level).
C26_LevelFieldsConsistent ==
    user_profiles # NoRow =>
        /\ user_profiles.current_level = ActivitiesCalculateLevel(user_profiles.total_xp)
        /\ user_profiles.xp_current_level =
              user_profiles.total_xp - ActivitiesGetLevelThreshold(user_profiles.current_level)
        /\ user_profiles.xp_to_next_level =
              ActivitiesGetLevelThreshold(user_profiles.current_level + 1)
                 - user_profiles.total_xp
        /\ user_profiles.plant_stage = ActivitiesGetPlantStage(user_profiles.current_level)

\* after the first award the four fields do agree
C26_ConsistentAfterAward ==
    /\ user_profiles # NoRow
    /\ user_profiles.total_xp > 0
    /\ user_profiles.current_level = 3
    /\ user_profiles.xp_to_next_level =
          ActivitiesGetLevelThreshold(4) - user_profiles.total_xp
    /\ user_profiles.plant_stage = ActivitiesGetPlantStage(3)

(***************************************************************************)
(* Requests that award XP, each database call one step                     *)
(***************************************************************************)
\* the award requests of one user the model runs side by side
MaxCalls == 2

\* the mission the complete-mission requests name: its row number is its id
TheMission == 1

\* Base XP for scanning
ReceiptXp == 50

\* activity_data of complete_mission and of scan_and_analyze_receipt
ActivityData(uid, activity_type, mission_id, xp_earned, day) ==
    [user_id |-> uid, activity_type |-> activity_type, mission_id |-> mission_id,
     xp_earned |-> xp_earned, created_at |-> day]

\* a request before its first database call.  mission and profile are the
\* rows the request has read; xp, co2, n_missions and money are the
\* arguments it calls update_user_stats with.
NewCall(kind) ==
    [kind |-> kind,
     pc |-> IF kind = "complete" THEN "select_mission" ELSE "read_profile",
     mission |-> NoRow, profile |-> NoRow,
     xp |-> IF kind = "complete" THEN 0 ELSE ReceiptXp,
     co2 |-> 0, n_missions |-> 0, money |-> 0]

\* value of mission.get(k, 0) for a stored number
NumberOr0(x) == IF x = None THEN 0 ELSE x[1]

\* a user with a profile and missions, as POST /missions/generate leaves
\* them, and requests to complete the same mission or to award receipt XP
ActivityInit ==
    /\ today = 0
    /\ user_profiles = Upsert(NoRow, ProfileData("user-1", "BEGINNER", 0, DefaultOpportunities))
    /\ user_missions = PreviousRows
    /\ user_activities = <<>>
    /\ requests \in [1..MaxCalls -> {NewCall("complete"), NewCall("receipt")}]
    /\ agent = NoAgent
    /\ twin = NoTwin
    /\ WorkflowIdle

\* complete_mission: get mission details, check if already completed
SelectMission(i) ==
    /\ requests[i].pc = "select_mission"
    /\ LET mission == user_missions[TheMission]
       IN  requests' =
             IF mission.status = "completed"
             THEN [requests EXCEPT ![i].pc = "rejected"]
             ELSE [requests EXCEPT ![i].pc = "insert_activity",
                                   ![i].mission = mission,
                                   ![i].xp = mission.xp_reward,
                                   ![i].co2 = NumberOr0(mission.co2_saved_kg),
                                   ![i].n_missions = 1,
                                   ![i].money = NumberOr0(mission.money_saved)]
    /\ UNCHANGED <<today, user_profiles, user_missions, user_activities, agent,
                   twin, workflow_vars>>

\* complete_mission: create activity record
InsertMissionActivity(i) ==
    /\ requests[i].pc = "insert_activity"
    /\ user_activities' =
          Append(user_activities,
                 ActivityData("user-1", "mission", Some(TheMission), requests[i].xp, today))
    /\ requests' = [requests EXCEPT ![i].pc = "update_mission"]
    /\ UNCHANGED <<today, user_profiles, user_missions, agent, twin, workflow_vars>>

\* complete_mission: update mission status
UpdateMissionStatus(i) ==
    /\ requests[i].pc = "update_mission"
    /\ user_missions' = [user_missions EXCEPT ![TheMission].status = "completed"]
    /\ requests' = [requests EXCEPT ![i].pc = "read_profile"]
    /\ UNCHANGED <<today, user_profiles, user_activities, agent, twin, workflow_vars>>

\* update_user_stats: get current profile
ReadProfile(i) ==
    /\ requests[i].pc = "read_profile"
    /\ requests' = [requests EXCEPT ![i].pc = "write_profile", ![i].profile = user_profiles]
    /\ UNCHANGED <<today, user_profiles, user_missions, user_activities, agent,
                   twin, workflow_vars>>

\* update_user_stats: update the row with update_data, computed from the
\* profile that was read.  Only the columns of update_data are written.
WriteProfile(i) ==
    /\ requests[i].pc = "write_profile"
    /\ LET r == requests[i]
           update_data == UpdatedProfile(r.profile, r.xp, r.co2, r.n_missions, r.money, today)
       IN  user_profiles' =
             [k \in DOMAIN user_profiles |->
                IF k \in {"total_xp", "current_level", "xp_current_level", "xp_to_next_level",
                          "total_co2_saved", "total_missions_completed", "total_money_saved",
                          "last_activity_date", "current_streak_days", "longest_streak_days"}
                   \/ (k = "plant_stage" /\ update_data.current_level > r.profile.current_level)
                THEN update_data[k] ELSE user_profiles[k]]
    /\ requests' = [requests EXCEPT
                       ![i].pc = IF requests[i].kind = "complete" THEN "done" ELSE "log_activity"]
    /\ UNCHANGED <<today, user_missions, user_activities, agent, twin, workflow_vars>>

\* scan_and_analyze_receipt: log activity to feed
LogReceiptActivity(i) ==
    /\ requests[i].pc = "log_activity"
    /\ user_activities' =
          Append(user_activities, ActivityData("user-1", "freeform", None, ReceiptXp, today))
    /\ requests' = [requests EXCEPT ![i].pc = "done"]
    /\ UNCHANGED <<today, user_profiles, user_missions, agent, twin, workflow_vars>>

ActivityNext ==
    \E i \in 1..MaxCalls :
        \/ SelectMission(i)
        \/ InsertMissionActivity(i)
        \/ UpdateMissionStatus(i)
        \/ ReadProfile(i)
        \/ WriteProfile(i)
        \/ LogReceiptActivity(i)

ActivitySpec == ActivityInit /\ [][ActivityNext]_vars

\* the requests that have called update_user_stats to its end
Awarded == {i \in DOMAIN requests : requests[i].pc \in {"log_activity", "done"}}

RECURSIVE SumOver(_, _)
SumOver(set, field) ==
    IF set = {} THEN 0
    ELSE LET i == CHOOSE j \in set : TRUE
         IN  requests[i][field] + SumOver(set \ {i}, field)

\* the mission activity records of the mission
MissionRecords ==
    {k \in DOMAIN user_activities :
        /\ user_activities[k].activity_type = "mission"
        /\ user_activities[k].mission_id = Some(TheMission)}

\* C27: a mission is rewarded at most once.  Under any interleaving of the
\* complete-mission requests for one mission, each database call one step,
\* at most one activity record of type mission is inserted for it and at
\* most one request adds its xp_reward to total_xp; a request that finds
\* status = completed is rejected and has written nothing.
C27_RewardedOnce ==
    /\ Cardinality(MissionRecords) <= 1
    /\ Cardinality({i \in Awarded : requests[i].kind = "complete"}) <= 1
    /\ \A i \in DOMAIN requests :
          requests[i].pc = "rejected" => requests[i].mission = NoRow

\* one request after the other: the second finds the mission completed
C27_SecondRejected ==
    /\ \E i, j \in DOMAIN requests : requests[i].pc = "done" /\ requests[j].pc = "rejected"
    /\ Cardinality(MissionRecords) = 1
    /\ user_profiles.total_xp = user_missions[TheMission].xp_reward

\* C28: no XP award is lost.  Under any interleaving of update_user_stats
\* calls on the profile, the read and the write being separate steps, once
\* the calls are over total_xp is the initial total_xp (0) plus the sum of
\* the awarded xp, and likewise total_co2_saved, total_missions_completed
\* and total_money_saved.
C28_NoAwardLost ==
    (\A i \in DOMAIN requests : requests[i].pc \in {"done", "rejected"}) =>
        /\ user_profiles.total_xp = SumOver(Awarded, "xp")
        /\ user_profiles.total_co2_saved = SumOver(Awarded, "co2")
        /\ user_profiles.total_missions_completed = SumOver(Awarded, "n_missions")
        /\ user_profiles.total_money_saved = SumOver(Awarded, "money")

\* two awards one after the other are both kept
C28_BothAwardsKept ==
    /\ \A i \in DOMAIN requests : requests[i].pc = "done"
    /\ Cardinality(Awarded) = MaxCalls
    /\ user_profiles.total_xp = SumOver(Awarded, "xp")
    /\ user_profiles.total_xp > ReceiptXp

(***************************************************************************)
(* The daily limit of freeform activities                                  *)
(***************************************************************************)
\* max 20 freeform activities per day
DailyLimit == 20

\* XP of the shopping assistant
ShoppingXp == 25

\* the submissions of one user the model runs side by side
MaxSubmissions == 3

\* what parse_activity_with_gemini returns: an action it does not recognise
\* (also its own fallback when the call or the JSON fails), a meal, or a
\* purchase
GeminiResults ==
    { [confidence |-> 30, category |-> "energy", is_plant_based |-> FALSE],
      [confidence |-> 90, category |-> "food", is_plant_based |-> TRUE],
      [confidence |-> 85, category |-> "food", is_plant_based |-> FALSE],
      [confidence |-> 90, category |-> "shopping", is_plant_based |-> FALSE] }

\* calculate_co2_with_climatiq for a meal or a purchase, then the cap of 10
\* kg; in hundredths of a kg
FreeformCo2(result) ==
    LET co2_saved == IF result.category = "food"
                     THEN (IF result.is_plant_based THEN 180 ELSE 0)
                     ELSE IF result.category = "shopping" THEN 50
                     ELSE 0
        floor == IF co2_saved > 10 THEN co2_saved ELSE 10
    IN  IF floor < 1000 THEN floor ELSE 1000

\* routers/activities.calculate_xp, co2 in hundredths of a kg
ActivitiesCalculateXp(co2_saved, category) ==
    LET co2_xp == IF (co2_saved * 5) \div 100 < 40 THEN (co2_saved * 5) \div 100 ELSE 40
        bonus  == IF category = "transportation" THEN 10
                  ELSE IF category \in {"food", "energy", "shopping"} THEN 5 ELSE 0
        total_xp == 10 + co2_xp + bonus
    IN  IF total_xp < 50 THEN total_xp ELSE 50

\* estimate_money_saved for a meal or a purchase, in cents
EstimateMoneySaved(category) == IF category = "food" THEN 300 ELSE 0

\* a submission before its first database call; count is the daily count
\* it read
NewSubmission(kind) ==
    [kind |-> kind, pc |-> IF kind = "freeform" THEN "count_check" ELSE "log_activity",
     count |-> None]

\* the freeform rows of the user created today
FreeformToday ==
    {k \in DOMAIN user_activities :
        /\ user_activities[k].activity_type = "freeform"
        /\ user_activities[k].created_at >= today}

\* the user's rows after n accepted submissions today and one yesterday
EarlierRows(n) ==
    <<ActivityData("user-1", "freeform", None, 17, -1)>>
    \o [k \in 1..n |-> ActivityData("user-1", "freeform", None, 17, 0)]

FreeformInit ==
    /\ today = 0
    /\ user_profiles = Upsert(NoRow, ProfileData("user-1", "BEGINNER", 0, DefaultOpportunities))
    /\ user_missions = PreviousRows
    /\ \E n \in {0, DailyLimit - 2, DailyLimit - 1, DailyLimit} :
          user_activities = EarlierRows(n)
    /\ requests \in [1..MaxSubmissions ->
                       {NewSubmission("freeform"), NewSubmission("receipt"),
                        NewSubmission("shopping")}]
    /\ agent = NoAgent
    /\ twin = NoTwin
    /\ WorkflowIdle

\* submit_freeform_activity: check daily limit, then the duplicate check
\* (the texts of the submissions differ)
CheckDailyLimit(i) ==
    /\ requests[i].pc = "count_check"
    /\ LET count == Cardinality(FreeformToday)
       IN  requests' = [requests EXCEPT
                           ![i].count = Some(count),
                           ![i].pc = IF count >= DailyLimit THEN "rejected_429"
                                     ELSE "parse"]
    /\ UNCHANGED <<today, user_profiles, user_missions, user_activities, agent,
                   twin, workflow_vars>>

\* submit_freeform_activity after the await of the Gemini call: confidence
\* check, CO2 and XP, store activity, update user profile stats
StoreFreeformActivity(i) ==
    /\ requests[i].pc = "parse"
    /\ \E result \in GeminiResults :
         IF result.confidence < 50
         THEN /\ requests' = [requests EXCEPT ![i].pc = "rejected_400"]
              /\ UNCHANGED <<user_activities, user_profiles>>
         ELSE LET co2_saved == FreeformCo2(result)
                  xp_earned == ActivitiesCalculateXp(co2_saved, result.category)
              IN  /\ user_activities' =
                        Append(user_activities,
                               ActivityData("user-1", "freeform", None, xp_earned, today))
                  /\ user_profiles' =
                        UpdatedProfile(user_profiles, xp_earned, co2_saved, 0,
                                       EstimateMoneySaved(result.category), today)
                  /\ requests' = [requests EXCEPT ![i].pc = "done"]
    /\ UNCHANGED <<today, user_missions, agent, twin, workflow_vars>>

\* scan_and_analyze_receipt, steps 6 and 7, and generate_shopping_list after
\* the stream: award XP and log a freeform activity to the feed
LogFeedActivity(i) ==
    /\ requests[i].pc = "log_activity"
    /\ LET xp == IF requests[i].kind = "receipt" THEN ReceiptXp ELSE ShoppingXp
       IN  /\ user_activities' =
                 Append(user_activities, ActivityData("user-1", "freeform", None, xp, today))
           /\ user_profiles' = UpdatedProfile(user_profiles, xp, 0, 0, 0, today)
    /\ requests' = [requests EXCEPT ![i].pc = "done"]
    /\ UNCHANGED <<today, user_missions, agent, twin, workflow_vars>>

FreeformNext ==
    \E i \in 1..MaxSubmissions :
        \/ CheckDailyLimit(i)
        \/ StoreFreeformActivity(i)
        \/ LogFeedActivity(i)

FreeformSpec == FreeformInit /\ [][FreeformNext]_vars

\* C29: for one user and one day, user_activities never holds more than 20
\* records of type freeform created that day, under any interleaving of
\* freeform submissions (which wait for the Gemini call between the count
\* check and the insert) and of the receipt and shopping handlers; a
\* submission that reads a count of 20 is rejected and inserts nothing.
C29_AtMostTwentyPerDay ==
    /\ Cardinality(FreeformToday) <= DailyLimit
    /\ \A i \in DOMAIN requests :
          (requests[i].count # None /\ requests[i].count[1] >= DailyLimit)
              => requests[i].pc = "rejected_429"

\* the twenty-first submission of the day is rejected
C29_RejectedAtLimit ==
    /\ \E i \in DOMAIN requests : requests[i].pc = "rejected_429"
    /\ Cardinality(FreeformToday) = DailyLimit

(***************************************************************************)
(* ShoppingAgent.run_streaming                                             *)
(***************************************************************************)
\* self.max_iterations
max_iterations == 6

\* What the LLM answers to _decide_action: JSON naming an action, with an
\* input that is an object ("dict", also when the key is missing), null, or
\* an object whose items is a number; or an answer json.loads or
\* decision["action"] fails on, or an exception ("failed").
Decisions ==
    [kind : {"json"},
     action : {"query_past_receipts", "query_commitments", "calculate_carbon_impact",
               "generate_shopping_list", "buy_everything"},
     input : {"dict", "null", "items_number"}]
    \cup {[kind |-> "failed", action |-> "", input |-> "dict"]}

\* What the LLM answers to _generate_shopping_list: a JSON array of n items,
\* an empty JSON object, a non-empty JSON object, or an answer that is not
\* JSON or an exception ("failed").
ListAnswers ==
    {[kind |-> "array", n |-> 8], [kind |-> "array", n |-> 0],
     [kind |-> "empty_object", n |-> 0], [kind |-> "object", n |-> 1],
     [kind |-> "failed", n |-> 0]}

ItemNames(n) == [k \in 1..n |-> "item"]

\* _decide_action: the decision of the LLM, or the default of the except
DecideAction(decision, iterations) ==
    IF decision.kind = "json"
    THEN [action |-> decision.action, input |-> decision.input]
    ELSE IF \A k \in DOMAIN iterations : iterations[k] # "query_past_receipts"
    THEN [action |-> "query_past_receipts", input |-> "dict"]
    ELSE [action |-> "generate_shopping_list", input |-> "dict"]

\* _execute_action raises: action_input.get on null, len() of a number
ExecuteRaises(action, input) ==
    \/ action \in {"query_past_receipts", "calculate_carbon_impact"} /\ input = "null"
    \/ action = "calculate_carbon_impact" /\ input = "items_number"

\* context["final_list"] after _generate_shopping_list: the parsed answer,
\* or the one-item fallback list of the except (iterating a non-empty
\* object raises in item.get)
GenerateShoppingList(answer) ==
    IF answer.kind \in {"array", "empty_object"} THEN Some(ItemNames(answer.n))
    ELSE Some(<<"Seasonal spinach">>)

\* the call before the loop: i is the index of the for loop
AgentInit ==
    /\ agent = [phase |-> "think", i |-> 0, iterations |-> <<>>, final_list |-> None,
                events |-> <<>>, raised |-> FALSE]
    /\ user_activities = <<>>
    /\ twin = NoTwin
    /\ StoreIdle
    /\ WorkflowIdle

\* THINK: the thought of the LLM, or the default text, is yielded
AgentThink ==
    /\ agent.phase = "think"
    /\ agent' = [agent EXCEPT
                    !.phase = "act",
                    !.events = Append(@, [type |-> "thinking", iteration |-> agent.i + 1,
                                          shopping_list |-> <<>>])]
    /\ UNCHANGED <<user_activities, twin, store_vars, workflow_vars>>

\* ACT and OBSERVE: decide (forced on the last iteration), execute, record
\* the iteration, break after generate_shopping_list
AgentAct ==
    /\ agent.phase = "act"
    /\ \E decision \in Decisions, answer \in ListAnswers :
         LET forced == agent.i = max_iterations - 1
                       /\ (agent.final_list = None \/ agent.final_list[1] = <<>>)
             act == IF forced THEN [action |-> "generate_shopping_list", input |-> "dict"]
                    ELSE DecideAction(decision, agent.iterations)
         IN  IF ExecuteRaises(act.action, act.input)
             THEN agent' = [agent EXCEPT !.phase = "raised", !.raised = TRUE]
             ELSE agent' =
                    [agent EXCEPT
                       !.final_list = IF act.action = "generate_shopping_list"
                                      THEN GenerateShoppingList(answer) ELSE @,
                       !.iterations = Append(@, act.action),
                       !.i = @ + 1,
                       !.phase = IF act.action = "generate_shopping_list"
                                    \/ agent.i + 1 = max_iterations
                                 THEN "complete" ELSE "think"]
    /\ UNCHANGED <<user_activities, twin, store_vars, workflow_vars>>

\* Yield final result
AgentComplete ==
    /\ agent.phase = "complete"
    /\ agent' = [agent EXCEPT
                    !.phase = "end",
                    !.events = Append(@, [type |-> "complete", iteration |-> Len(agent.iterations),
                                          shopping_list |-> IF agent.final_list = None THEN <<>>
                                                            ELSE agent.final_list[1]])]
    /\ UNCHANGED <<user_activities, twin, store_vars, workflow_vars>>

AgentNext == AgentThink \/ AgentAct \/ AgentComplete

AgentSpec == AgentInit /\ [][AgentNext]_vars

\* the iterations whose action was generate_shopping_list
ListIterations ==
    {k \in DOMAIN agent.iterations : agent.iterations[k] = "generate_shopping_list"}

\* C30: run_streaming ends after at most 6 think/act/observe iterations
\* whatever the LLM returns or raises in each step; generate_shopping_list
\* is executed exactly once, as the action of the last iteration; the last
\* event of the stream is the only event of type complete and carries a
\* non-empty shopping_list.
C30_AgentTerminates ==
    /\ ~agent.raised
    /\ Len(agent.iterations) <= max_iterations
    /\ Cardinality(ListIterations) <= 1
    /\ agent.phase \in {"complete", "end"} => ListIterations = {Len(agent.iterations)}
    /\ agent.phase = "end" =>
          /\ agent.events[Len(agent.events)].type = "complete"
          /\ Cardinality({k \in DOMAIN agent.events : agent.events[k].type = "complete"}) = 1
          /\ agent.events[Len(agent.events)].shopping_list # <<>>

\* five tool calls, then the forced list on the sixth iteration
C30_ForcedOnSixth ==
    /\ agent.phase = "end"
    /\ Len(agent.iterations) = max_iterations
    /\ ListIterations = {max_iterations}
    /\ Len(agent.events[Len(agent.events)].shopping_list) = 8

====
